---- MODULE Spec2Model ----
(***************************************************************************)
(* A model of jsonj (injector.go): Process rewrites raw JSON bytes by      *)
(* locating marks (object keys) with a regular expression, delimiting      *)
(* their values with a bracket/string scanner, batching the occurrences    *)
(* of each rule for its generator, and reassembling the output buffer.     *)
(*                                                                         *)
(* A byte is a one-character string; a []byte is a sequence of bytes.      *)
(* Offsets are the zero-based offsets of the Go code; a scanner that       *)
(* panics in Go returns -1 here and every caller propagates it.            *)
(***************************************************************************)
EXTENDS Integers, Sequences, FiniteSets, TLC

(***************************************************************************)
(* Bounds of the model.                                                    *)
(***************************************************************************)
MaxMembers == 3

MaxPasses == 2

MaxRepeats == 2

\* the rules given to one NewRuleSet call
MaxRules == 2

\* the Process calls that run concurrently
MaxProcs == 2

\* the nesting depth of the values given to the scanner
MaxDepth == 2

(***************************************************************************)
(* Bytes and slices.                                                       *)
(***************************************************************************)
Quote == "\""

Backslash == "\\"

\* data[i]
At(data, i) == data[i + 1]

\* data[lo:hi]
Slice(data, lo, hi) == SubSeq(data, lo + 1, hi)

\* data[lo:]
SliceFrom(data, lo) == SubSeq(data, lo + 1, Len(data))

\* asciiSpace: \t \n \v \f \r and space ("\v" is written VT: a byte is an atom)
asciiSpace == {"\t", "\n", "VT", "\f", "\r", " "}

\* the character class [ \t\n\r] of the rule set's regular expression
regexpSpace == {" ", "\t", "\n", "\r"}

nullLiteral == <<"n", "u", "l", "l">>

trueLiteral == <<"t", "r", "u", "e">>

falseLiteral == <<"f", "a", "l", "s", "e">>

Digits == {"0", "1", "2", "3", "4", "5", "6", "7", "8", "9"}

\* the bytes findJSONNumberEnd accepts after the first one
NumberBytes == Digits \cup {"+", "-", "e", "E", "."}

(***************************************************************************)
(* The value-span scanner.                                                 *)
(***************************************************************************)
\* findJSONStringEnd's loop without the case of the backslash
RECURSIVE StringEndLoopNoEscape(_, _)
StringEndLoopNoEscape(data, i) ==
    IF i >= Len(data) THEN -1
    ELSE IF At(data, i) = Quote THEN i
    ELSE StringEndLoopNoEscape(data, i + 1)

RECURSIVE StringEndLoop(_, _)
StringEndLoop(data, i) ==
    IF i >= Len(data) THEN -1
    ELSE IF At(data, i) = Backslash THEN StringEndLoop(data, i + 2)
    ELSE IF At(data, i) = Quote THEN i
    ELSE StringEndLoop(data, i + 1)

\* findJSONStringEnd: the offset of the closing quote of the string data starts with
findJSONStringEnd(data) == StringEndLoop(data, 1)

RECURSIVE NumberEndLoop(_, _)
NumberEndLoop(data, i) ==
    IF i >= Len(data) THEN -1
    ELSE IF At(data, i) \in NumberBytes THEN NumberEndLoop(data, i + 1)
    ELSE i

\* findJSONNumberEnd: the length of the leading run of number bytes
findJSONNumberEnd(data) == NumberEndLoop(data, 1)

RECURSIVE findJSONValueEnd(_)
RECURSIVE ValueEndLoop(_, _, _)
ValueEndLoop(data, end, c) ==
    IF c >= Len(data) THEN -1
    ELSE IF At(data, c) = Quote
    THEN LET n == findJSONStringEnd(SliceFrom(data, c))
         IN  IF n < 0 THEN -1 ELSE ValueEndLoop(data, end, c + n + 1)
    ELSE IF At(data, c) \in {"{", "["}
    THEN LET n == findJSONValueEnd(SliceFrom(data, c))
         IN  IF n < 0 THEN -1 ELSE ValueEndLoop(data, end, c + n + 1)
    ELSE IF At(data, c) = end THEN c
    ELSE ValueEndLoop(data, end, c + 1)

\* findJSONValueEnd: the offset of the bracket closing the object/array data starts with
findJSONValueEnd(data) ==
    LET end == IF At(data, 0) = "{" THEN "}"
               ELSE IF At(data, 0) = "[" THEN "]"
               ELSE "NUL"
    IN  ValueEndLoop(data, end, 1)

\* bytes.Equal(data[i:i+len(lit)], lit); a slice past the end of data does not
\* compare equal (on a buffer of exactly len(data) capacity Go panics, as below)
LiteralAt(data, i, lit) ==
    /\ i + Len(lit) <= Len(data)
    /\ Slice(data, i, i + Len(lit)) = lit

RECURSIVE FragmentEndLoop(_, _)
FragmentEndLoop(data, i) ==
    IF i >= Len(data) THEN -1
    ELSE LET c == At(data, i) IN
         IF c \in asciiSpace THEN FragmentEndLoop(data, i + 1)
         ELSE IF c = Quote
         THEN LET n == findJSONStringEnd(SliceFrom(data, i))
              IN  IF n < 0 THEN -1 ELSE i + n + 1
         ELSE IF c \in {"[", "{"}
         THEN LET n == findJSONValueEnd(SliceFrom(data, i))
              IN  IF n < 0 THEN -1 ELSE i + n + 1
         ELSE IF c = "-" \/ c \in Digits
         THEN LET n == findJSONNumberEnd(SliceFrom(data, i))
              IN  IF n < 0 THEN -1 ELSE i + n
         ELSE IF c = "n" /\ LiteralAt(data, i, nullLiteral) THEN i + Len(nullLiteral)
         ELSE IF c = "t" /\ LiteralAt(data, i, trueLiteral) THEN i + Len(trueLiteral)
         ELSE IF c = "f" /\ LiteralAt(data, i, falseLiteral) THEN i + Len(falseLiteral)
         ELSE -1

\* findJSONFragmentEnd: the exclusive end offset of the JSON value data starts with
findJSONFragmentEnd(data) == FragmentEndLoop(data, 0)

RECURSIVE CommaPosLoop(_, _)
CommaPosLoop(data, i) ==
    IF i >= Len(data) THEN [pos |-> -1, found |-> FALSE, panic |-> TRUE]
    ELSE IF At(data, i) \in asciiSpace THEN CommaPosLoop(data, i + 1)
    ELSE IF At(data, i) = "," THEN [pos |-> i, found |-> TRUE, panic |-> FALSE]
    ELSE [pos |-> -1, found |-> FALSE, panic |-> FALSE]

\* findCommaPos: the first comma of data, skipping only whitespace
findCommaPos(data) == CommaPosLoop(data, 0)

(***************************************************************************)
(* Rules and rule sets.  A name (mark, key) is the sequence of its bytes.  *)
(***************************************************************************)
ModeUndefined == "Undefined"

ModeInsert == "Insert"

ModeDelete == "Delete"

ModeReplace == "Replace"

ModeReplaceValue == "ReplaceValue"

RuleModes == {ModeInsert, ModeDelete, ModeReplace, ModeReplaceValue}

\* the functions a rule's genBatch may hold: none, the package's own
\* EmptyFragmentsGenerator, or a function supplied by the caller
\* (a generator is [name, frag]: frag is the value a "const" generator returns
\* for every occurrence)
NilGenerator == [name |-> "nil", frag |-> <<>>]

EmptyFragmentsGeneratorFunc == [name |-> "EmptyFragmentsGenerator", frag |-> <<>>]

RECURSIVE EscapeQuotes(_)
\* strings.ReplaceAll(key, `"`, `\"`)
EscapeQuotes(key) ==
    IF key = <<>> THEN <<>>
    ELSE (IF Head(key) = Quote THEN <<Backslash, Quote>> ELSE <<Head(key)>>)
         \o EscapeQuotes(Tail(key))

NoRule == [panic |-> TRUE, mark |-> <<>>, preparedKey |-> <<>>,
           mode |-> ModeUndefined, genBatch |-> NilGenerator]

\* NewRule without its last check ("key is missing")
NewRuleAcceptsEmptyKey(mode, mark, key, batchFunc) ==
    IF mode = ModeUndefined THEN NoRule
    ELSE IF mark = <<>> THEN NoRule
    ELSE IF mode # ModeReplaceValue /\ mark = key THEN NoRule
    ELSE IF mode = ModeDelete
    THEN [panic |-> FALSE, mark |-> mark, preparedKey |-> <<>>,
          mode |-> mode, genBatch |-> EmptyFragmentsGeneratorFunc]
    ELSE IF batchFunc = NilGenerator THEN NoRule
    ELSE [panic |-> FALSE, mark |-> mark,
          preparedKey |-> <<Quote>> \o EscapeQuotes(key) \o <<Quote>>,
          mode |-> mode, genBatch |-> batchFunc]

\* NewRule: the rule, or panic |-> TRUE where the constructor panics
NewRule(mode, mark, key, batchFunc) ==
    IF mode = ModeUndefined THEN NoRule
    ELSE IF mark = <<>> THEN NoRule
    ELSE IF mode # ModeReplaceValue /\ mark = key THEN NoRule
    ELSE IF mode = ModeDelete
    THEN [panic |-> FALSE, mark |-> mark, preparedKey |-> <<>>,
          mode |-> mode, genBatch |-> EmptyFragmentsGeneratorFunc]
    ELSE IF batchFunc = NilGenerator THEN NoRule
    ELSE IF mode # ModeReplace /\ key = <<>> THEN NoRule
    ELSE [panic |-> FALSE, mark |-> mark,
          preparedKey |-> <<Quote>> \o EscapeQuotes(key) \o <<Quote>>,
          mode |-> mode, genBatch |-> batchFunc]

NewInsertRule(mark, key, batchFunc) == NewRule(ModeInsert, mark, key, batchFunc)

NewReplaceRule(mark, batchFunc) == NewRule(ModeReplace, mark, <<>>, batchFunc)

NewReplaceValueRule(mark, key, batchFunc) == NewRule(ModeReplaceValue, mark, key, batchFunc)

NewDeleteRule(mark) == NewRule(ModeDelete, mark, <<>>, NilGenerator)

\* a *regexp.Regexp: nil, or the compiled expression, represented by the
\* alternatives of its second group
NilRegexp == [compiled |-> FALSE, alts |-> {}]

\* var set RuleSet
EmptyRuleSet == [panic |-> FALSE, rules |-> <<>>, re |-> NilRegexp]

\* AddRule that replaces the rule registered for the mark
AddRuleOverwrites(set, rule) ==
    [panic |-> set.panic,
     rules |-> [m \in DOMAIN set.rules \cup {rule.mark} |->
                   IF m = rule.mark THEN rule ELSE set.rules[m]],
     re |-> NilRegexp]

\* RuleSet.AddRule; rules is the map mark -> Rule
AddRule(set, rule) ==
    IF rule.mark \in DOMAIN set.rules
    THEN [set EXCEPT !.panic = TRUE]
    ELSE [panic |-> set.panic,
          rules |-> [m \in DOMAIN set.rules \cup {rule.mark} |->
                        IF m = rule.mark THEN rule ELSE set.rules[m]],
          re |-> NilRegexp]

RECURSIVE AddRules(_, _, _)
AddRules(set, rules, n) ==
    IF n > Len(rules) \/ set.panic THEN set
    ELSE AddRules(AddRule(set, rules[n]), rules, n + 1)

\* NewRuleSet(rules...)
NewRuleSet(rules) == AddRules(EmptyRuleSet, rules, 1)

\* RuleSet.regexp: the expression (,[ \t\n\r]*)?"(m1|m2|...)"[ \t\n\r]*: of
\* the set's marks; with no rule the second group is the empty alternative
CompileRegexp(set) ==
    [compiled |-> TRUE,
     alts |-> IF DOMAIN set.rules = {} THEN {<<>>} ELSE DOMAIN set.rules]

\* the value set.regexp() returns, which it also stores in set.re
RuleSetRegexp(set) == IF set.re.compiled THEN set.re ELSE CompileRegexp(set)

(***************************************************************************)
(* The mark matcher.                                                       *)
(***************************************************************************)
RECURSIVE SkipRegexpSpace(_, _)
SkipRegexpSpace(data, i) ==
    IF i < Len(data) /\ At(data, i) \in regexpSpace
    THEN SkipRegexpSpace(data, i + 1)
    ELSE i

NoMatch == [ok |-> FALSE, loc |-> [j \in 0..5 |-> -1]]

\* whether the quoted alternative m stands at offset q of data
QuotedAt(data, q, m) ==
    /\ q + Len(m) + 2 <= Len(data)
    /\ At(data, q) = Quote
    /\ Slice(data, q + 1, q + 1 + Len(m)) = m
    /\ At(data, q + 1 + Len(m)) = Quote

\* a match of the expression starting exactly at offset s.  The optional
\* first group is taken when data[s] is a comma; without it the match must
\* start with the quote, so the two branches exclude each other.
MatchAt(re, data, s) ==
    LET hasComma == At(data, s) = ","
        q == IF hasComma THEN SkipRegexpSpace(data, s + 1) ELSE s
        alts == {m \in re.alts : QuotedAt(data, q, m)}
    IN  IF alts = {} THEN NoMatch
        ELSE LET m == CHOOSE x \in alts : TRUE
                 c == SkipRegexpSpace(data, q + Len(m) + 2)
             IN  IF c < Len(data) /\ At(data, c) = ":"
                 THEN [ok |-> TRUE,
                       loc |-> [j \in 0..5 |->
                                 CASE j = 0 -> s
                                   [] j = 1 -> c + 1
                                   [] j = 2 -> IF hasComma THEN s ELSE -1
                                   [] j = 3 -> IF hasComma THEN q ELSE -1
                                   [] j = 4 -> q + 1
                                   [] j = 5 -> q + 1 + Len(m)]]
                 ELSE NoMatch

RECURSIVE FindLoop(_, _, _)
FindLoop(re, data, s) ==
    IF s >= Len(data) THEN NoMatch
    ELSE LET m == MatchAt(re, data, s)
         IN  IF m.ok THEN m ELSE FindLoop(re, data, s + 1)

\* re.FindSubmatchIndex(data): the leftmost match
FindSubmatchIndex(re, data) == FindLoop(re, data, 0)

\* iterateMarks' loop with the search resumed at the value's start instead
\* of its end
RECURSIVE IterateLoopFromValue(_, _, _, _)
IterateLoopFromValue(bytes, re, from, found) ==
    LET m == FindSubmatchIndex(re, SliceFrom(bytes, from)) IN
    IF ~m.ok THEN [panic |-> FALSE, marks |-> found]
    ELSE LET loc == m.loc
             commaPos == IF loc[2] # -1 THEN from + loc[2] ELSE -1
             argsPos == from + loc[1]
             n == findJSONFragmentEnd(SliceFrom(bytes, argsPos))
         IN  IF n < 0 THEN [panic |-> TRUE, marks |-> found]
             ELSE IterateLoopFromValue(bytes, re, argsPos,
                      Append(found, [mark |-> Slice(bytes, from + loc[4], from + loc[5]),
                                     pos |-> from + loc[4] - 1, valuePos |-> argsPos,
                                     endPos |-> argsPos + n, commaPos |-> commaPos]))

RECURSIVE IterateLoop(_, _, _, _)
IterateLoop(data, re, i, found) ==
    LET m == FindSubmatchIndex(re, SliceFrom(data, i)) IN
    IF ~m.ok THEN [panic |-> FALSE, marks |-> found]
    ELSE LET loc == m.loc
             commaPos == IF loc[2] # -1 THEN i + loc[2] ELSE -1
             markPos == i + loc[4] - 1
             mark == Slice(data, i + loc[4], i + loc[5])
             argsPos == i + loc[1]
             n == findJSONFragmentEnd(SliceFrom(data, argsPos))
             endPos == argsPos + n
         IN  IF n < 0 THEN [panic |-> TRUE, marks |-> found]
             ELSE IterateLoop(data, re, endPos,
                      Append(found, [mark |-> mark, pos |-> markPos, valuePos |-> argsPos,
                                     endPos |-> endPos, commaPos |-> commaPos]))

\* iterateMarks: the calls made to the callback, in order
iterateMarks(data, re) == IterateLoop(data, re, 0, <<>>)

(***************************************************************************)
(* Fragments: the interface{} values a generator returns.                  *)
(*   struct: a struct whose fields are integers, fields = <<name, digits>> *)
(*   string: a Go string                                                   *)
(*   nil:    the nil interface (the fragment field before generation)      *)
(***************************************************************************)
NilFragment == [kind |-> "nil", fields |-> <<>>, str |-> <<>>]

\* struct{}{}
EmptyStruct == [kind |-> "struct", fields |-> <<>>, str |-> <<>>]

StructOf(fields) == [kind |-> "struct", fields |-> fields, str |-> <<>>]

StringOf(str) == [kind |-> "string", fields |-> <<>>, str |-> str]

RECURSIVE EncodeFields(_, _)
EncodeFields(fields, n) ==
    IF n > Len(fields) THEN <<>>
    ELSE (IF n > 1 THEN <<",">> ELSE <<>>)
         \o <<Quote>> \o fields[n][1] \o <<Quote, ":">> \o fields[n][2]
         \o EncodeFields(fields, n + 1)

\* json.Marshal of a fragment
Marshal(fragment) ==
    CASE fragment.kind = "struct" -> <<"{">> \o EncodeFields(fragment.fields, 1) \o <<"}">>
      [] fragment.kind = "string" -> <<Quote>> \o EscapeQuotes(fragment.str) \o <<Quote>>
      [] OTHER -> nullLiteral

\* json.NewEncoder(b).Encode(fragment): the encoding and a line feed
Encode(b, fragment) == b \o Marshal(fragment) \o <<"\n">>

\* b.Truncate(n)
Truncate(b, n) == SubSeq(b, 1, n)

\* fragEntry.writeFragment
writeFragment(b, e) ==
    LET w == Encode(b, e.fragment)
    IN  IF At(w, Len(w) - 1) = "\n" THEN Truncate(w, Len(w) - 1) ELSE w

\* data[0] = c on the bytes of b from offset l on
SetByte(b, l, c) == [b EXCEPT ![l + 1] = c]

\* writeForInsertMode appending the encoding of an empty fragment too
writeForInsertModeKeepsEmpty(b, e) ==
    IF e.fragment.kind # "struct" THEN [panic |-> TRUE, b |-> b]
    ELSE LET l == Len(b)
             w == writeFragment(b, e)
         IN  [panic |-> FALSE, b |-> Truncate(SetByte(w, l, ","), Len(w) - 1)]

\* writeForInsertMode leaving the opening brace of the fragment in place
writeForInsertModeKeepsBrace(b, e) ==
    IF e.fragment.kind # "struct" THEN [panic |-> TRUE, b |-> b]
    ELSE LET l == Len(b)
             w == writeFragment(b, e)
             data == SliceFrom(w, l)
         IN  IF data = <<"{", "}">> THEN [panic |-> FALSE, b |-> Truncate(w, l)]
             ELSE [panic |-> FALSE, b |-> Truncate(w, Len(w) - 1)]

\* fragEntry.writeForInsertMode
writeForInsertMode(b, e) ==
    IF e.fragment.kind # "struct" THEN [panic |-> TRUE, b |-> b]
    ELSE LET l == Len(b)
             w == writeFragment(b, e)
             data == SliceFrom(w, l)
         IN  IF data = <<"{", "}">> THEN [panic |-> FALSE, b |-> Truncate(w, l)]
             ELSE [panic |-> FALSE, b |-> Truncate(SetByte(w, l, ","), Len(w) - 1)]

\* writeForReplaceValueMode leaving the encoder's line feed in the buffer
writeForReplaceValueModeKeepsLF(b, e) == Encode(b, e.fragment)

\* fragEntry.writeForReplaceValueMode
writeForReplaceValueMode(b, e) == writeFragment(b, e)

\* writeForReplaceMode leaving the opening brace of the fragment in place
writeForReplaceModeKeepsBrace(b, e) ==
    LET l == Len(b)
        w == writeFragment(b, e)
        data == SliceFrom(w, l)
    IN  IF data = <<"{", "}">> THEN [count |-> 0, b |-> Truncate(w, l)]
        ELSE [count |-> Len(data) - 1, b |-> Truncate(w, Len(w) - 1)]

\* writeForReplaceMode leaving the encoding of an empty fragment in the buffer
writeForReplaceModeKeepsEmpty(b, e) ==
    LET l == Len(b)
        w == writeFragment(b, e)
        data == SliceFrom(w, l)
    IN  IF data = <<"{", "}">> THEN [count |-> 0, b |-> w]
        ELSE [count |-> Len(data) - 1, b |-> Truncate(SetByte(w, l, " "), Len(w) - 1)]

\* fragEntry.writeForReplaceMode
writeForReplaceMode(b, e) ==
    LET l == Len(b)
        w == writeFragment(b, e)
        data == SliceFrom(w, l)
    IN  IF data = <<"{", "}">> THEN [count |-> 0, b |-> Truncate(w, l)]
        ELSE [count |-> Len(data) - 1, b |-> Truncate(SetByte(w, l, " "), Len(w) - 1)]

(***************************************************************************)
(* Reassembly.                                                             *)
(***************************************************************************)
\* ExpandDelete that never consumes the comma after the deleted member
ExpandDeleteLeavesComma(b, data, frag, pos) ==
    IF frag.commaPos > 0
    THEN IF pos > frag.commaPos
         THEN [panic |-> TRUE, b |-> b, pos |-> pos]
         ELSE [panic |-> FALSE, b |-> b \o Slice(data, pos, frag.commaPos), pos |-> frag.endPos]
    ELSE IF pos > frag.markPos
         THEN [panic |-> TRUE, b |-> b, pos |-> pos]
         ELSE [panic |-> FALSE, b |-> b \o Slice(data, pos, frag.markPos), pos |-> frag.endPos]

\* one iteration of expandDataFragments' loop for a ModeDelete entry
ExpandDelete(b, data, frag, pos) ==
    IF frag.commaPos > 0
    THEN IF pos > frag.commaPos
         THEN [panic |-> TRUE, b |-> b, pos |-> pos]
         ELSE [panic |-> FALSE, b |-> b \o Slice(data, pos, frag.commaPos), pos |-> frag.endPos]
    ELSE IF pos > frag.markPos
         THEN [panic |-> TRUE, b |-> b, pos |-> pos]
         ELSE LET c == findCommaPos(SliceFrom(data, frag.endPos))
              IN  [panic |-> c.panic,
                   b |-> b \o Slice(data, pos, frag.markPos),
                   pos |-> IF c.found THEN frag.endPos + c.pos + 1 ELSE frag.endPos]

\* one iteration of expandDataFragments' loop
ExpandOne(b, data, frag, rule, pos) ==
    IF rule.mode = ModeDelete THEN ExpandDelete(b, data, frag, pos)
    ELSE IF pos > frag.markPos THEN [panic |-> TRUE, b |-> b, pos |-> pos]
    ELSE LET head == b \o Slice(data, pos, frag.markPos) IN
         CASE rule.mode = ModeReplaceValue ->
                [panic |-> FALSE,
                 b |-> writeForReplaceValueMode(head \o rule.preparedKey \o <<":">>, frag),
                 pos |-> frag.endPos]
           [] rule.mode = ModeReplace ->
                LET w == writeForReplaceMode(head, frag)
                IN  [panic |-> FALSE,
                     b |-> IF w.count = 0
                           THEN w.b \o Slice(data, frag.markPos, frag.endPos)
                           ELSE w.b,
                     pos |-> frag.endPos]
           [] rule.mode = ModeInsert ->
                LET w == writeForInsertMode(head \o rule.preparedKey \o <<":">>
                                                 \o Slice(data, frag.argsPos, frag.endPos), frag)
                IN  [panic |-> w.panic, b |-> w.b, pos |-> frag.endPos]
           [] OTHER -> [panic |-> FALSE, b |-> b, pos |-> pos]

RECURSIVE ExpandLoop(_, _, _, _, _, _)
ExpandLoop(b, data, fragments, rules, n, pos) ==
    IF n > Len(fragments) THEN [panic |-> FALSE, b |-> b \o SliceFrom(data, pos)]
    ELSE LET r == ExpandOne(b, data, fragments[n], rules[fragments[n].rule], pos)
         IN  IF r.panic THEN [panic |-> TRUE, b |-> r.b]
             ELSE ExpandLoop(r.b, data, fragments, rules, n + 1, r.pos)

\* expandDataFragments: the bytes written to b, or panic.  A fragEntry names
\* its rule by the rule's mark; rules is the map the entries were made from.
expandDataFragments(b, data, fragments, rules) ==
    ExpandLoop(b, data, fragments, rules, 1, 0)

(***************************************************************************)
(* The fragment iterator and the generators.                               *)
(***************************************************************************)
\* newFragEntryListIter with the iterator already on the first entry
newFragEntryListIterAtFirst(entries, data) ==
    [data |-> data, entries |-> entries, idx |-> 0]

newFragEntryListIter(entries, data) == [data |-> data, entries |-> entries, idx |-> -1]

\* fragEntryListIter.Next: the advanced iterator and the value returned
IterNext(iter) ==
    [iter |-> [iter EXCEPT !.idx = iter.idx + 1],
     ok |-> iter.idx + 1 < Len(iter.entries)]

\* fragEntryListIter.Count
IterCount(iter) == Len(iter.entries)

\* fragEntryListIter.Bytes
IterBytes(iter) ==
    LET entry == iter.entries[iter.idx + 1]
    IN  Slice(iter.data, entry.argsPos, entry.endPos)

RECURSIVE ReadLoop(_, _, _)
\* for iterator.Next() { iterator.Count(); iterator.Bytes() }, as the
\* generators of the tests read their iterator: the bytes seen, the counts
\* reported (before the loop too) and what one more Next returns
ReadLoop(iter, spans, counts) ==
    LET nx == IterNext(iter)
    IN  IF ~nx.ok
        THEN [spans |-> spans, counts |-> counts, again |-> IterNext(nx.iter).ok]
        ELSE ReadLoop(nx.iter, Append(spans, IterBytes(nx.iter)),
                      Append(counts, IterCount(nx.iter)))

ReadAll(iter) == ReadLoop(iter, <<>>, <<IterCount(iter)>>)

RECURSIVE EmptyFragmentsLoop(_, _, _)
EmptyFragmentsLoop(iter, entities, i) ==
    LET nx == IterNext(iter)
    IN  IF ~nx.ok THEN entities
        ELSE EmptyFragmentsLoop(nx.iter, [entities EXCEPT ![i + 1] = EmptyStruct], i + 1)

\* EmptyFragmentsGenerator
EmptyFragmentsGenerator(iter) ==
    EmptyFragmentsLoop(iter, [j \in 1..IterCount(iter) |-> NilFragment], 0)

(***************************************************************************)
(* The inputs: JSON objects given by their structure and rendered to       *)
(* bytes.  A member is [key, val]; a value is a number, a string or an     *)
(* object of members.  A style says where whitespace is written.           *)
(***************************************************************************)
NameA == <<"a">>

NameB == <<"b">>

NameK == <<"k">>

NameZ == <<"z">>

NumberValue == [kind |-> "num", bytes |-> <<"1">>, members |-> <<>>]

StringValue == [kind |-> "str", bytes |-> <<Quote, "v", Quote>>, members |-> <<>>]

ObjectValue(members) == [kind |-> "obj", bytes |-> <<>>, members |-> members]

Member(key, val) == [key |-> key, val |-> val]

\* whitespace before and after a colon, before and after a comma
Compact == [bc |-> <<>>, ac |-> <<>>, bs |-> <<>>, as |-> <<>>]

Spaced == [bc |-> <<" ">>, ac |-> <<" ">>, bs |-> <<" ">>, as |-> <<" ">>]

Styles == {Compact, Spaced}

RECURSIVE RenderValue(_, _)
RECURSIVE RenderMembers(_, _, _)
RenderMember(m, style) ==
    <<Quote>> \o m.key \o <<Quote>> \o style.bc \o <<":">> \o style.ac
    \o RenderValue(m.val, style)

RenderMembers(members, style, n) ==
    IF n > Len(members) THEN <<>>
    ELSE (IF n > 1 THEN style.bs \o <<",">> \o style.as ELSE <<>>)
         \o RenderMember(members[n], style)
         \o RenderMembers(members, style, n + 1)

RenderValue(val, style) ==
    IF val.kind = "obj"
    THEN <<"{">> \o RenderMembers(val.members, style, 1) \o <<"}">>
    ELSE val.bytes

\* the bytes of the object with these members
Render(members, style) == RenderValue(ObjectValue(members), style)

\* the members a generated document is made of: a mark with a scalar, a mark
\* whose value holds the mark again, a second mark, and keys that are no
\* marks, one of them with a mark inside its value
MemberChoices ==
    { Member(NameA, NumberValue),
      Member(NameA, ObjectValue(<<Member(NameA, NumberValue)>>)),
      Member(NameB, StringValue),
      Member(NameZ, NumberValue),
      Member(NameZ, ObjectValue(<<Member(NameA, NumberValue)>>)) }

SeqsUpTo(S, n) == UNION {[1..k -> S] : k \in 0..n}

Documents == SeqsUpTo(MemberChoices, MaxMembers)

(***************************************************************************)
(* Generators supplied by the caller.  AnyGenerator is an arbitrary        *)
(* function: it may fail, return a list of the wrong length, or return any *)
(* fragment for each occurrence.  ConstGenerator(f) returns f for every    *)
(* occurrence, as the generators of BenchmarkProcess do.                   *)
(***************************************************************************)
AnyGenerator == [name |-> "any", frag |-> <<>>]

\* a generator that returns an error
FailingGenerator == [name |-> "fail", frag |-> <<>>]

ConstGenerator(f) == [name |-> "const", frag |-> <<f>>]

\* a struct with one field, encoded {"x":1}
MetaStruct == StructOf(<< <<(<<"x">>), (<<"1">>)>> >>)

UUIDString == StringOf(<<"s">>)

AnyFragments == {EmptyStruct, MetaStruct, UUIDString}

RECURSIVE ConstLoop(_, _, _)
ConstLoop(iter, f, result) ==
    LET nx == IterNext(iter)
    IN  IF ~nx.ok THEN result ELSE ConstLoop(nx.iter, f, Append(result, f))

\* what a call genBatch(ctx, iter, flags) may return: (result, err)
GenOutcomes(gen, iter) ==
    CASE gen.name = "EmptyFragmentsGenerator" ->
            {[err |-> FALSE, result |-> EmptyFragmentsGenerator(iter)]}
      [] gen.name = "const" ->
            {[err |-> FALSE, result |-> ConstLoop(iter, gen.frag[1], <<>>)]}
      [] gen.name = "fail" ->
            {[err |-> TRUE, result |-> <<>>]}
      [] OTHER ->
            {[err |-> TRUE, result |-> <<>>],
             [err |-> FALSE, result |-> [j \in 1..(IterCount(iter) - 1) |-> EmptyStruct]]}
            \cup {[err |-> FALSE, result |-> r] : r \in [1..IterCount(iter) -> AnyFragments]}

(***************************************************************************)
(* The pipelines of the model.                                             *)
(***************************************************************************)
Pass(set, repeats) == [RuleSet |-> set, Repeats |-> repeats]

\* rule sets applied once to every document, with arbitrary generators
SingleRuleSets ==
    { NewRuleSet(<<NewInsertRule(NameA, NameK, AnyGenerator)>>),
      NewRuleSet(<<NewReplaceValueRule(NameA, NameK, AnyGenerator)>>),
      NewRuleSet(<<NewReplaceRule(NameA, AnyGenerator)>>),
      NewRuleSet(<<NewDeleteRule(NameA)>>),
      NewRuleSet(<<NewDeleteRule(NameA), NewDeleteRule(NameB)>>),
      NewRuleSet(<<NewInsertRule(NameA, NameK, AnyGenerator), NewDeleteRule(NameB)>>),
      NewRuleSet(<<NewReplaceValueRule(NameA, NameK, AnyGenerator),
                   NewReplaceRule(NameB, AnyGenerator)>>) }

\* a -> b -> k: the first rule writes the key the second rule consumes
ChainRuleSet ==
    NewRuleSet(<<NewReplaceValueRule(NameA, NameB, ConstGenerator(UUIDString)),
                 NewInsertRule(NameB, NameK, ConstGenerator(MetaStruct))>>)

\* the chain with a generator that fails for the second rule
FailingChainRuleSet ==
    NewRuleSet(<<NewReplaceValueRule(NameA, NameB, ConstGenerator(UUIDString)),
                 NewInsertRule(NameB, NameK, FailingGenerator)>>)

ChainRuleSets == {ChainRuleSet, FailingChainRuleSet, NewRuleSet(<<NewDeleteRule(NameB)>>)}

\* rule sets of Delete rules only
DeleteRuleSets ==
    { NewRuleSet(<<NewDeleteRule(NameA)>>),
      NewRuleSet(<<NewDeleteRule(NameA), NewDeleteRule(NameB)>>) }

\* the empty array
EmptyArray == <<"[", "]">>

ChainDocuments ==
    { <<Member(NameA, NumberValue)>>,
      <<Member(NameA, NumberValue), Member(NameB, StringValue)>>,
      <<Member(NameZ, NumberValue), Member(NameA, NumberValue)>>,
      <<Member(NameB, StringValue),
        Member(NameZ, ObjectValue(<<Member(NameA, NumberValue)>>))>> }

\* documents for the rule set without rules: with and without a member
\* whose key is the empty string
EmptyKeyDocuments ==
    { <<Member(NameA, NumberValue)>>,
      <<Member(<<>>, NumberValue)>>,
      <<Member(NameA, NumberValue), Member(<<>>, StringValue)>> }

ChainPasses == {Pass(set, n) : set \in ChainRuleSets, n \in 0..MaxRepeats}

\* a scenario: a document, its rendering style and the passes of ProcessParams
Scenarios ==
    {[doc |-> d, style |-> st, input |-> Render(d, st), passes |-> <<Pass(set, 1)>>] :
        d \in Documents, st \in Styles, set \in SingleRuleSets}
    \cup
    {[doc |-> d, style |-> Compact, input |-> Render(d, Compact), passes |-> ps] :
        d \in ChainDocuments, ps \in SeqsUpTo(ChainPasses, MaxPasses)}
    \cup
    {[doc |-> d, style |-> st, input |-> Render(d, st), passes |-> <<Pass(set, 2)>>] :
        d \in Documents, st \in Styles, set \in DeleteRuleSets}
    \cup
    {[doc |-> <<>>, style |-> Compact, input |-> EmptyArray, passes |-> <<Pass(set, 1)>>] :
        set \in SingleRuleSets}
    \cup
    {[doc |-> d, style |-> st, input |-> Render(d, st), passes |-> <<Pass(set, 1)>>] :
        d \in EmptyKeyDocuments, st \in Styles,
        set \in SingleRuleSets \cup {NewRuleSet(<<>>)}}

(***************************************************************************)
(* The state of one call Process(ctx, input, params).                      *)
(***************************************************************************)
VARIABLES
    doc,        \* the members the input was rendered from
    style,      \* and the style of the rendering
    input,      \* the caller's input bytes
    passes,     \* params.Passes (a RuleSet caches its compiled expression)
    pc,         \* "call", "loop" (the head of the loops), "gen" (inside
                \* doPassBatch, between generator calls), "done"
    outcome,    \* "none", "ok" (output, nil), "error" (nil, err), "panic"
    output,     \* the bytes Process returned
    err,        \* the error Process returned
    ctx,        \* the caller's context: "live" or "cancelled"
    passIdx,    \* the pass of the outer loop (1-based)
    i,          \* the repeat counter of the inner loop
    data,       \* the buffer read by the current application
    buf,        \* the buffer written by the current application
    pool,       \* bytesBufferPool
    fragments,  \* doPassBatch's entries, in source order
    pending,    \* the rules of entriesPerRule whose generator was not called yet
    calls,      \* the generator calls of the current application, in order
    applied     \* the completed applications, in order

\* the configuration of a rule set, before any processing
VARIABLES
    cfgPc,      \* "idle", "config", or "panicked" (a constructor panicked)
    ruleSet,    \* the RuleSet being configured
    made,       \* what the last NewRule call returned
    lastCall    \* the last call, its arguments and the set it found

configVars == <<cfgPc, ruleSet, made, lastCall>>

\* Process calls that run concurrently on one RuleSet and one buffer pool
VARIABLES
    procs,      \* the calls: position, input, passes left, the two buffers
    memory,     \* the backing arrays of the slices and buffers
    bufferPool, \* bytesBufferPool
    sharedSet,  \* the RuleSet of all the calls
    reWrites,   \* the writes of sharedSet.re made by the calls
    bufWrites   \* the writes of backing arrays made by the calls

concVars == <<procs, memory, bufferPool, sharedSet, reWrites, bufWrites>>

\* the state of one call of findJSONFragmentEnd: the buffer (the whitespace
\* before the value, the value, the bytes after it) and what was returned
VARIABLES scanPc, scanIn, scanOut

scanVars == <<scanPc, scanIn, scanOut>>

NoCall == [op |-> "none"]

\* no rule set is being configured
ConfigIdle ==
    /\ cfgPc = "idle"
    /\ ruleSet = EmptyRuleSet
    /\ made = NoRule
    /\ lastCall = NoCall

\* no concurrent call is made
ConcIdle ==
    /\ procs = <<>>
    /\ memory = <<>>
    /\ bufferPool = {}
    /\ sharedSet = EmptyRuleSet
    /\ reWrites = {}
    /\ bufWrites = {}

\* the scanner is not being called
ScanIdle ==
    /\ scanPc = "idle"
    /\ scanIn = <<>>
    /\ scanOut = 0

vars == <<doc, style, input, passes, pc, outcome, output, err, ctx, passIdx, i, data, buf,
          pool, fragments, pending, calls, applied>>

\* the error values: nil, the error a generator returns, and doPassBatch's
\* "fragments generation error for rule '<mode>(<mark>)': <e>"
NilError == [msg |-> "nil"]

GeneratorError == [msg |-> "generator"]

\* Rule.String
RuleString(rule) == [mode |-> rule.mode, mark |-> rule.mark]

GenerationError(rule, e) ==
    [msg |-> "fragments generation error for rule", rule |-> RuleString(rule), wraps |-> e]

\* bytes.NewBuffer(input): a buffer that uses input's memory
NewBuffer(bytes) == [mem |-> "input", bytes |-> bytes]

\* newBytesBuffer with an empty pool: a new buffer
NewPoolBuffer == [mem |-> "heap", bytes |-> <<>>]

\* bytes.Buffer.Reset
Reset(b) == [b EXCEPT !.bytes = <<>>]

\* no call of the single-call specification is made
ProcessIdle ==
    /\ doc = <<>>
    /\ style = Compact
    /\ input = <<>>
    /\ passes = <<>>
    /\ pc = "idle"
    /\ outcome = "none"
    /\ output = <<>>
    /\ err = NilError
    /\ ctx = "live"
    /\ passIdx = 0
    /\ i = 0
    /\ data = NewBuffer(<<>>)
    /\ buf = NewBuffer(<<>>)
    /\ pool = {}
    /\ fragments = <<>>
    /\ pending = {}
    /\ calls = <<>>
    /\ applied = <<>>

Init ==
    \E sc \in Scenarios :
        /\ doc = sc.doc
        /\ style = sc.style
        /\ input = sc.input
        /\ passes = sc.passes
        /\ pc = "call"
        /\ outcome = "none"
        /\ output = <<>>
        /\ err = NilError
        /\ ctx = "live"
        /\ passIdx = 0
        /\ i = 0
        /\ data = NewBuffer(<<>>)
        /\ buf = NewBuffer(<<>>)
        /\ pool = {}
        /\ fragments = <<>>
        /\ pending = {}
        /\ calls = <<>>
        /\ applied = <<>>
        /\ ConfigIdle
        /\ ConcIdle
        /\ ScanIdle

\* Process returns (bytes, nil), (nil, err) or panics
Return(how, bytes) ==
    /\ pc' = "done"
    /\ outcome' = how
    /\ output' = bytes
    /\ err' = NilError

\* ReturnError that returns the bytes read by the failed application
ReturnErrorWithData(e) ==
    /\ pc' = "done"
    /\ outcome' = "error"
    /\ output' = data.bytes
    /\ err' = [msg |-> "unable to do pass", i |-> i, wraps |-> e]

\* doPassBatch returned e: Process returns (nil, "unable to do pass i: e")
ReturnError(e) ==
    /\ pc' = "done"
    /\ outcome' = "error"
    /\ output' = <<>>
    /\ err' = [msg |-> "unable to do pass", i |-> i, wraps |-> e]

\* ProcessCall whose early return gives nothing back
ProcessCallReturnsNothing ==
    /\ pc = "call"
    /\ IF Len(input) <= 2 \/ Len(passes) = 0
       THEN /\ Return("ok", <<>>)
            /\ UNCHANGED <<passIdx, i, data, buf, pool>>
       ELSE /\ data' = NewBuffer(input)
            /\ IF pool = {}
               THEN buf' = NewPoolBuffer /\ pool' = pool
               ELSE \E b \in pool : buf' = b /\ pool' = pool \ {b}
            /\ passIdx' = 1
            /\ i' = 0
            /\ pc' = "loop"
            /\ UNCHANGED <<outcome, output, err>>
    /\ UNCHANGED <<configVars, concVars, scanVars, ctx, doc, style, input, passes, fragments, pending, calls, applied>>

\* Process up to its loops: the early returns and the two buffers
ProcessCall ==
    /\ pc = "call"
    /\ IF Len(input) <= 2 \/ Len(passes) = 0
       THEN /\ Return("ok", input)
            /\ UNCHANGED <<passIdx, i, data, buf, pool>>
       ELSE /\ data' = NewBuffer(input)
            /\ IF pool = {}
               THEN buf' = NewPoolBuffer /\ pool' = pool
               ELSE \E b \in pool : buf' = b /\ pool' = pool \ {b}
            /\ passIdx' = 1
            /\ i' = 0
            /\ pc' = "loop"
            /\ UNCHANGED <<outcome, output, err>>
    /\ UNCHANGED <<configVars, concVars, scanVars, ctx, doc, style, input, passes, fragments, pending, calls, applied>>

\* NextPass with one repeat counter for all the passes
NextPassKeepsCounter ==
    /\ pc = "loop"
    /\ passIdx <= Len(passes)
    /\ i >= passes[passIdx].Repeats
    /\ passIdx' = passIdx + 1
    /\ i' = i
    /\ UNCHANGED <<configVars, concVars, scanVars, ctx, doc, style, input, passes, pc, outcome, output, err, data, buf, pool,
                   fragments, pending, calls, applied>>

\* the inner loop ends: the next pass
NextPass ==
    /\ pc = "loop"
    /\ passIdx <= Len(passes)
    /\ i >= passes[passIdx].Repeats
    /\ passIdx' = passIdx + 1
    /\ i' = 0
    /\ UNCHANGED <<configVars, concVars, scanVars, ctx, doc, style, input, passes, pc, outcome, output, err, data, buf, pool,
                   fragments, pending, calls, applied>>

\* the outer loop ends: freeBuf(buf) and return data.Bytes()
ProcessReturn ==
    /\ pc = "loop"
    /\ passIdx > Len(passes)
    /\ pool' = pool \cup {Reset(buf)}
    /\ Return("ok", data.bytes)
    /\ UNCHANGED <<configVars, concVars, scanVars, ctx, doc, style, input, passes, passIdx, i, data, buf,
                   fragments, pending, calls, applied>>

\* FinishPass without data, buf = buf, data: the next application reads the
\* same data again
FinishPassNoSwap(out, frags, called) ==
    /\ data' = data
    /\ buf' = Reset(buf)
    /\ i' = i + 1
    /\ pc' = "loop"
    /\ pending' = {}
    /\ applied' = Append(applied, [pass |-> passIdx, i |-> i, in |-> data.bytes,
                                   out |-> out, fragments |-> frags, calls |-> called])
    /\ UNCHANGED <<outcome, output, err>>

\* doPassBatch returned nil with out written to buf:
\* data, buf = buf, data; buf.Reset(); i++
FinishPass(out, frags, called) ==
    /\ data' = [buf EXCEPT !.bytes = out]
    /\ buf' = Reset(data)
    /\ i' = i + 1
    /\ pc' = "loop"
    /\ pending' = {}
    /\ applied' = Append(applied, [pass |-> passIdx, i |-> i, in |-> data.bytes,
                                   out |-> out, fragments |-> frags, calls |-> called])
    /\ UNCHANGED <<outcome, output, err>>

\* the fragEntry values doPassBatch's callback appends
Entries(marks) ==
    [n \in 1..Len(marks) |->
        [rule |-> marks[n].mark, commaPos |-> marks[n].commaPos, markPos |-> marks[n].pos,
         argsPos |-> marks[n].valuePos, endPos |-> marks[n].endPos, fragment |-> NilFragment]]

\* doPassBatch up to its first generator call: the marks are matched and
\* grouped by rule; with no match the data is copied and the pass is over
doPassBatch ==
    /\ pc = "loop"
    /\ passIdx <= Len(passes)
    /\ i < passes[passIdx].Repeats
    /\ LET set == passes[passIdx].RuleSet
           re == RuleSetRegexp(set)
           found == iterateMarks(data.bytes, re)
           unknown == \E n \in 1..Len(found.marks) : found.marks[n].mark \notin DOMAIN set.rules
       IN  /\ passes' = [passes EXCEPT ![passIdx].RuleSet.re = re]
           /\ calls' = <<>>
           /\ IF found.panic \/ unknown
              THEN /\ Return("panic", <<>>)
                   /\ UNCHANGED <<i, data, buf, fragments, pending, applied>>
              ELSE IF Len(found.marks) = 0
              THEN /\ FinishPass(buf.bytes \o data.bytes, <<>>, <<>>)
                   /\ fragments' = <<>>
              ELSE /\ fragments' = Entries(found.marks)
                   /\ pending' = {found.marks[n].mark : n \in 1..Len(found.marks)}
                   /\ pc' = "gen"
                   /\ UNCHANGED <<outcome, output, err, i, data, buf, applied>>
    /\ UNCHANGED <<configVars, concVars, scanVars, ctx, doc, style, input, passIdx, pool>>

\* EntriesOf with the first occurrence of the rule only
EntriesOfFirstOnly(frags, rule) ==
    <<CHOOSE n \in 1..Len(frags) :
        frags[n].rule = rule /\ \A m \in 1..(n - 1) : frags[m].rule # rule>>

\* the positions in fragments of the entries of entriesPerRule[rule], in order
EntriesOf(frags, rule) ==
    LET idx == {n \in 1..Len(frags) : frags[n].rule = rule}
        F[k \in 0..Cardinality(idx)] ==
            IF k = 0 THEN <<>>
            ELSE LET prev == F[k - 1]
                     last == IF k = 1 THEN 0 ELSE prev[k - 1]
                 IN  Append(prev, CHOOSE n \in idx : n > last /\ \A m \in idx : m > last => n <= m)
    IN  F[Cardinality(idx)]

\* list[i].fragment = result[i]
Assign(frags, list, result) ==
    [n \in 1..Len(frags) |->
        IF \E k \in 1..Len(list) : list[k] = n
        THEN [frags[n] EXCEPT !.fragment = result[CHOOSE k \in 1..Len(list) : list[k] = n]]
        ELSE frags[n]]

\* one iteration of doPassBatch's loop over entriesPerRule (a map: any order):
\* the rule's generator is called with the rule's entries; after the last
\* rule the buffer is reassembled and the pass is over
GenBatch(rule) ==
    /\ pc = "gen"
    /\ rule \in pending
    /\ LET set == passes[passIdx].RuleSet
           list == EntriesOf(fragments, rule)
           iter == newFragEntryListIter([k \in 1..Len(list) |-> fragments[list[k]]], data.bytes)
       IN  \E o \in GenOutcomes(set.rules[rule].genBatch, iter) :
             /\ calls' = Append(calls, [rule |-> rule, mode |-> set.rules[rule].mode,
                                        count |-> IterCount(iter),
                                        read |-> ReadAll(iter),
                                        marks |-> [k \in 1..Len(list) |->
                                                      fragments[list[k]].markPos],
                                        err |-> o.err, result |-> o.result])
             /\ IF o.err
                THEN /\ ReturnError(GenerationError(set.rules[rule], GeneratorError))
                     /\ UNCHANGED <<i, data, buf, fragments, pending, applied>>
                ELSE IF Len(list) # Len(o.result)
                THEN /\ Return("panic", <<>>)
                     /\ UNCHANGED <<i, data, buf, fragments, pending, applied>>
                ELSE LET frags == Assign(fragments, list, o.result) IN
                     /\ fragments' = frags
                     /\ IF pending = {rule}
                        THEN LET e == expandDataFragments(buf.bytes, data.bytes, frags, set.rules)
                             IN  IF e.panic
                                 THEN /\ Return("panic", <<>>)
                                      /\ UNCHANGED <<i, data, buf, pending, applied>>
                                 ELSE FinishPass(e.b, frags, calls')
                        ELSE /\ pending' = pending \ {rule}
                             /\ UNCHANGED <<pc, outcome, output, err, i, data, buf, applied>>
    /\ UNCHANGED <<configVars, concVars, scanVars, ctx, doc, style, input, passes, passIdx, pool>>

\* the caller cancels the context while Process runs
Cancel ==
    /\ pc \in {"loop", "gen"}
    /\ ctx = "live"
    /\ ctx' = "cancelled"
    /\ UNCHANGED <<configVars, concVars, scanVars, doc, style, input, passes, pc, outcome,
                   output, err, passIdx, i, data, buf, pool, fragments, pending, calls,
                   applied>>

Next ==
    \/ Cancel
    \/ ProcessCall
    \/ NextPass
    \/ ProcessReturn
    \/ doPassBatch
    \/ \E rule \in pending : GenBatch(rule)

Spec == Init /\ [][Next]_vars

(***************************************************************************)
(* The configuration of a rule set: NewRule, NewRuleSet, AddRule and the    *)
(* compilation of the expression, called in any order with any arguments.  *)
(* A panic of a constructor ends the configuration.                        *)
(***************************************************************************)
ConfigMarks == {<<>>, NameA, NameB}

ConfigKeys == {<<>>, NameA, NameK}

ConfigGenerators == {NilGenerator, AnyGenerator}

\* rules given to NewRuleSet: two of them have the same mark
ConfigRules ==
    { NewDeleteRule(NameA),
      NewInsertRule(NameA, NameK, AnyGenerator),
      NewReplaceRule(NameB, AnyGenerator) }

InitConfig ==
    /\ cfgPc = "config"
    /\ ruleSet = EmptyRuleSet
    /\ made = NoRule
    /\ lastCall = NoCall
    /\ ProcessIdle
    /\ ConcIdle
    /\ ScanIdle

NewRuleCall ==
    /\ cfgPc = "config"
    /\ \E mode \in RuleModes, mark \in ConfigMarks, key \in ConfigKeys,
          batchFunc \in ConfigGenerators :
          LET r == NewRule(mode, mark, key, batchFunc)
          IN  /\ made' = r
              /\ cfgPc' = IF r.panic THEN "panicked" ELSE "config"
              /\ lastCall' = [op |-> "NewRule", mode |-> mode, mark |-> mark, key |-> key,
                              batchFunc |-> batchFunc, before |-> ruleSet]
    /\ UNCHANGED <<ruleSet, vars, concVars, scanVars>>

\* set.AddRule(rule) with the rule made last
AddRuleCall ==
    /\ cfgPc = "config"
    /\ ~made.panic
    /\ ruleSet' = AddRule(ruleSet, made)
    /\ cfgPc' = IF ruleSet'.panic THEN "panicked" ELSE "config"
    /\ lastCall' = [op |-> "AddRule", rule |-> made, before |-> ruleSet]
    /\ UNCHANGED <<made, vars, concVars, scanVars>>

\* set = NewRuleSet(rules...): a panic leaves set as it was
NewRuleSetCall ==
    /\ cfgPc = "config"
    /\ \E rs \in SeqsUpTo(ConfigRules, MaxRules) :
          LET new == NewRuleSet(rs)
          IN  /\ ruleSet' = IF new.panic THEN ruleSet ELSE new
              /\ cfgPc' = IF new.panic THEN "panicked" ELSE "config"
              /\ lastCall' = [op |-> "NewRuleSet", rules |-> rs, before |-> ruleSet]
    /\ UNCHANGED <<made, vars, concVars, scanVars>>

\* set.regexp(): the expression is compiled once and kept in set.re
RegexpCall ==
    /\ cfgPc = "config"
    /\ ruleSet' = [ruleSet EXCEPT !.re = RuleSetRegexp(ruleSet)]
    /\ lastCall' = [op |-> "regexp", before |-> ruleSet]
    /\ UNCHANGED <<cfgPc, made, vars, concVars, scanVars>>

NextConfig ==
    \/ NewRuleCall
    \/ AddRuleCall
    \/ NewRuleSetCall
    \/ RegexpCall

SpecConfig == InitConfig /\ [][NextConfig]_configVars

(***************************************************************************)
(* Concurrent Process calls.  Every call has its own input slice and all    *)
(* calls share one RuleSet and bytesBufferPool.  A slice or buffer is a    *)
(* window [arr, len] on a backing array of memory; the capacity of an      *)
(* array is its length, and an input slice fills its array.  A step of a   *)
(* call is one access of shared state: the pool, set.re, or an array.  An  *)
(* application is one step that reads the array of data and writes the     *)
(* array of buf; the generators here are the package's own, which cannot   *)
(* fail, and no application of these configurations outgrows its buffer.   *)
(* Go defines no outcome for the unsynchronized accesses of set.re; on the *)
(* builds of the package a read yields nil or a compiled expression of the *)
(* set, which the interleaving of the steps covers.                        *)
(***************************************************************************)
Procs == 1..MaxProcs

BufferSizeRatio == 3

MB == 1048576

MaxBufferSize == 5 * MB

InputArray(p) == <<"in", p>>

HeapArrays == {<<"heap", n>> : n \in 1..(2 * MaxProcs)}

Arrays == {InputArray(p) : p \in Procs} \cup HeapArrays

\* make([]byte, 0, c)
MakeArray(c) == [k \in 1..c |-> "0"]

\* an array that was not allocated yet
FreeArray(mem) ==
    CHOOSE a \in HeapArrays :
        /\ mem[a] = <<>>
        /\ \A other \in HeapArrays : mem[other] = <<>> => a[2] <= other[2]

\* b.Bytes() and b.Cap()
BufferBytes(mem, b) == SubSeq(mem[b.arr], 1, b.len)

BufferCap(mem, b) == Len(mem[b.arr])

\* b.Write(bytes) after b.Reset(): in place when the array is large enough,
\* into a new array otherwise
BufferWrite(mem, b, bytes) ==
    IF Len(bytes) <= BufferCap(mem, b)
    THEN [mem |-> [mem EXCEPT ![b.arr] =
                      bytes \o SubSeq(mem[b.arr], Len(bytes) + 1, Len(mem[b.arr]))],
          b |-> [b EXCEPT !.len = Len(bytes)]]
    ELSE LET a == FreeArray(mem)
             c == 2 * BufferCap(mem, b) + Len(bytes)
         IN  [mem |-> [mem EXCEPT ![a] = bytes \o MakeArray(c - Len(bytes))],
              b |-> [arr |-> a, len |-> Len(bytes)]]

\* b.Grow(n) on an empty buffer
BufferGrow(mem, b, n) ==
    IF n <= BufferCap(mem, b) - b.len
    THEN [mem |-> mem, b |-> b]
    ELSE LET a == FreeArray(mem)
         IN  [mem |-> [mem EXCEPT ![a] = MakeArray(2 * BufferCap(mem, b) + n)],
              b |-> [arr |-> a, len |-> 0]]

\* newBytesBuffer(inputSize) when bytesBufferPool.Get() returns nothing
NewHeapBuffer(mem, inputSize) ==
    LET a == FreeArray(mem)
    IN  [mem |-> [mem EXCEPT ![a] = MakeArray(inputSize * BufferSizeRatio)],
         b |-> [arr |-> a, len |-> 0]]

RECURSIVE GenerateAll(_, _, _, _)
\* doPassBatch's loop over entriesPerRule with generators that return one
\* result: the entries with their fragments
GenerateAll(frags, todo, rules, bytes) ==
    IF todo = {} THEN frags
    ELSE LET rule == CHOOSE r \in todo : TRUE
             list == EntriesOf(frags, rule)
             iter == newFragEntryListIter([k \in 1..Len(list) |-> frags[list[k]]], bytes)
             o == CHOOSE x \in GenOutcomes(rules[rule].genBatch, iter) : TRUE
         IN  GenerateAll(Assign(frags, list, o.result), todo \ {rule}, rules, bytes)

\* doPassBatch after iterateMarks found the marks
ApplyFound(rules, found, bytes) ==
    IF found.panic \/ \E n \in 1..Len(found.marks) : found.marks[n].mark \notin DOMAIN rules
    THEN [panic |-> TRUE, b |-> <<>>]
    ELSE IF Len(found.marks) = 0 THEN [panic |-> FALSE, b |-> bytes]
    ELSE expandDataFragments(<<>>, bytes,
             GenerateAll(Entries(found.marks),
                         {found.marks[n].mark : n \in 1..Len(found.marks)}, rules, bytes),
             rules)

\* doPassBatch(ctx, buf, data, set, flags) as one step: what it writes to buf
ApplyRuleSet(rules, re, bytes) == ApplyFound(rules, iterateMarks(bytes, re), bytes)

\* the inputs of the concurrent calls: 7 bytes, and 21 bytes
ConcInputs ==
    { Render(<<Member(NameA, NumberValue)>>, Compact),
      Render(<<Member(NameA, NumberValue), Member(NameB, StringValue),
               Member(NameZ, NumberValue)>>, Compact) }

ConcRuleSet == NewRuleSet(<<NewDeleteRule(NameA)>>)

\* a call that was not made; src: the bytes the caller passes as input
IdleProc ==
    [pc |-> "idle", left |-> 0, src |-> <<>>, re |-> NilRegexp,
     data |-> [arr |-> <<>>, len |-> 0], buf |-> [arr |-> <<>>, len |-> 0],
     out |-> [arr |-> <<>>, len |-> 0]]

InitConc ==
    /\ procs = [p \in Procs |-> IdleProc]
    /\ memory = [a \in Arrays |-> <<>>]
    /\ bufferPool = {}
    /\ sharedSet = ConcRuleSet
    /\ reWrites = {}
    /\ bufWrites = {}
    /\ ProcessIdle
    /\ ConfigIdle
    /\ ScanIdle

\* the calls that are between their start and their return
Running(p) == procs[p].pc \in {"loop", "compile", "apply"}

\* the arrays the caller of p holds: its input, and the output returned to it
Held(p) ==
    (IF procs[p].pc = "idle" THEN {} ELSE {InputArray(p)})
    \cup (IF procs[p].pc = "done" THEN {procs[p].out.arr} ELSE {})

\* Process up to its loops, with one pass of the shared set: the input is
\* wrapped in a buffer and a buffer is taken from the pool, which may give
\* any buffer it holds, or none
ConcCall(p) ==
    /\ procs[p].pc = "idle"
    /\ \E bytes \in ConcInputs, repeats \in 1..MaxRepeats :
          LET mem == [memory EXCEPT ![InputArray(p)] = bytes]
          IN  \E got \in bufferPool \cup {IdleProc.buf} :
                LET nb == IF got = IdleProc.buf
                          THEN NewHeapBuffer(mem, Len(bytes))
                          ELSE BufferGrow(mem, got, Len(bytes) * BufferSizeRatio)
                IN  /\ memory' = nb.mem
                    /\ bufferPool' = bufferPool \ {got}
                    /\ procs' = [procs EXCEPT ![p] =
                          [pc |-> "loop", left |-> repeats, src |-> bytes, re |-> NilRegexp,
                           data |-> [arr |-> InputArray(p), len |-> Len(bytes)],
                           buf |-> nb.b, out |-> IdleProc.out]]
    /\ UNCHANGED <<sharedSet, reWrites, bufWrites, vars, configVars, scanVars>>

\* set.regexp() up to its return or to the compilation: set.re is read
ConcRegexp(p) ==
    /\ procs[p].pc = "loop"
    /\ procs[p].left > 0
    /\ procs' = [procs EXCEPT ![p].pc = IF sharedSet.re.compiled THEN "apply" ELSE "compile",
                              ![p].re = sharedSet.re]
    /\ UNCHANGED <<memory, bufferPool, sharedSet, reWrites, bufWrites, vars, configVars, scanVars>>

\* set.re = regexp.MustCompile(exp): set.re is written
ConcCompile(p) ==
    /\ procs[p].pc = "compile"
    /\ sharedSet' = [sharedSet EXCEPT !.re = CompileRegexp(sharedSet)]
    /\ reWrites' = reWrites \cup {[by |-> p, during |-> {q \in Procs \ {p} : Running(q)}]}
    /\ procs' = [procs EXCEPT ![p].pc = "apply", ![p].re = CompileRegexp(sharedSet)]
    /\ UNCHANGED <<memory, bufferPool, bufWrites, vars, configVars, scanVars>>

\* doPassBatch, then data, buf = buf, data; buf.Reset()
ConcApply(p) ==
    /\ procs[p].pc = "apply"
    /\ \E e \in {ApplyRuleSet(sharedSet.rules, procs[p].re,
                               BufferBytes(memory, procs[p].data))} :
       \E w \in {BufferWrite(memory, procs[p].buf, e.b)} :
           IF e.panic
           THEN /\ procs' = [procs EXCEPT ![p].pc = "panicked"]
                /\ UNCHANGED <<memory, bufWrites>>
           ELSE /\ memory' = w.mem
                /\ bufWrites' = bufWrites \cup
                      {[by |-> p, arr |-> w.b.arr,
                        holders |-> {q \in Procs \ {p} : w.b.arr \in Held(q)}]}
                /\ procs' = [procs EXCEPT ![p].pc = "loop",
                                          ![p].left = procs[p].left - 1,
                                          ![p].data = w.b,
                                          ![p].buf = [procs[p].data EXCEPT !.len = 0]]
    /\ UNCHANGED <<bufferPool, sharedSet, reWrites, vars, configVars, scanVars>>

\* freeBuf(buf); return data.Bytes(), nil
ConcReturn(p) ==
    /\ procs[p].pc = "loop"
    /\ procs[p].left = 0
    /\ bufferPool' = IF BufferCap(memory, procs[p].buf) > MaxBufferSize THEN bufferPool
                     ELSE bufferPool \cup {[procs[p].buf EXCEPT !.len = 0]}
    /\ procs' = [procs EXCEPT ![p].pc = "done", ![p].out = procs[p].data]
    /\ UNCHANGED <<memory, sharedSet, reWrites, bufWrites, vars, configVars, scanVars>>

NextConc ==
    \E p \in Procs :
        \/ ConcCall(p)
        \/ ConcRegexp(p)
        \/ ConcCompile(p)
        \/ ConcApply(p)
        \/ ConcReturn(p)

SpecConc == InitConc /\ [][NextConc]_concVars

(***************************************************************************)
(* The value-span scanner called on its own: findJSONFragmentEnd on a      *)
(* buffer made of whitespace, a value and the bytes that follow it.        *)
(***************************************************************************)
ScanStrings ==
    {<<Quote, Quote>>,
     <<Quote, "v", Quote>>,
     <<Quote, Backslash, Quote, Quote>>,
     <<Quote, Backslash, Backslash, Quote>>,
     <<Quote, "w", Backslash, Quote, " ", Backslash, "n", "[", "{", "}", "]", " ", Quote>>,
     <<Quote, "]", Quote>>,
     <<Quote, "}", "v", "{", "}", Quote>>}

ScanNumbers ==
    {<<"0">>,
     <<"-", "1", "2">>,
     <<"1", ".", "5">>,
     <<"-", "9", "e", "1", "0">>,
     <<"1", "E", "+", "2">>}

ScanScalars == ScanStrings \cup ScanNumbers \cup {nullLiteral, trueLiteral, falseLiteral}

ScanSpacings == {<<>>, <<" ">>}

ScanKeys == {<<Quote, "k", Quote>>, <<Quote, "}", Backslash, Quote, "]", Quote>>}

Array1(e, sp) == <<"[">> \o sp \o e \o sp \o <<"]">>

Array2(e, f) == <<"[">> \o e \o <<",", " ">> \o f \o <<"]">>

Object1(k, e) == <<"{">> \o k \o <<":">> \o e \o <<"}">>

RECURSIVE ScanValues(_)
ScanValues(depth) ==
    IF depth = 0 THEN ScanScalars
    ELSE ScanScalars
         \cup {<<"[", "]">>, <<"{", "}">>, <<"[", " ", "]">>}
         \cup UNION {{Array1(e, sp) : sp \in ScanSpacings}
                        \cup {Array2(<<"1", ".", "2">>, e)}
                        \cup {Object1(k, e) : k \in ScanKeys} :
                     e \in ScanValues(depth - 1)}

ScanLeads == {<<>>, <<" ">>, <<"\n", "\r", "\t", "VT", "\f", " ">>}

ScanTails == {<<>>, <<",">>, <<"}", "]">>, <<" ", ",", Quote, "n", Quote, ":", "{", "}">>}

ScanInputs == [lead : ScanLeads, value : ScanValues(MaxDepth), tail : ScanTails]

ScanData(in) == in.lead \o in.value \o in.tail

InitScan ==
    /\ scanPc = "ready"
    /\ scanIn \in ScanInputs
    /\ scanOut = 0
    /\ ProcessIdle
    /\ ConfigIdle
    /\ ConcIdle

\* got := findJSONFragmentEnd(data); a panic is -1
ScanCall ==
    /\ scanPc = "ready"
    /\ scanOut' = findJSONFragmentEnd(ScanData(scanIn))
    /\ scanPc' = "done"
    /\ UNCHANGED <<scanIn, vars, configVars, concVars>>

NextScan == ScanCall

SpecScan == InitScan /\ [][NextScan]_scanVars

(***************************************************************************)
(* The JSON grammar (json.org), used to state that bytes are valid JSON.   *)
(* ParseX(d, i) is the offset after the X that starts at offset i, or -1.  *)
(***************************************************************************)
jsonSpace == {" ", "\t", "\n", "\r"}

RECURSIVE SkipJSONSpace(_, _)
SkipJSONSpace(d, j) ==
    IF j < Len(d) /\ At(d, j) \in jsonSpace THEN SkipJSONSpace(d, j + 1) ELSE j

RECURSIVE ParseStringTail(_, _)
ParseStringTail(d, j) ==
    IF j >= Len(d) THEN -1
    ELSE IF At(d, j) = Quote THEN j + 1
    ELSE IF At(d, j) = Backslash
    THEN IF j + 1 < Len(d) /\ At(d, j + 1) \in {Quote, Backslash, "/", "b", "f", "n", "r", "t"}
         THEN ParseStringTail(d, j + 2)
         ELSE -1
    ELSE IF At(d, j) \in {"\t", "\n", "\r", "\f", "VT"} THEN -1
    ELSE ParseStringTail(d, j + 1)

ParseString(d, j) ==
    IF j < Len(d) /\ At(d, j) = Quote THEN ParseStringTail(d, j + 1) ELSE -1

RECURSIVE SkipDigits(_, _)
SkipDigits(d, j) ==
    IF j < Len(d) /\ At(d, j) \in Digits THEN SkipDigits(d, j + 1) ELSE j

ParseNumber(d, j) ==
    LET j1 == IF j < Len(d) /\ At(d, j) = "-" THEN j + 1 ELSE j
        j2 == IF j1 < Len(d) /\ At(d, j1) = "0" THEN j1 + 1 ELSE SkipDigits(d, j1)
        j3 == IF j2 < Len(d) /\ At(d, j2) = "." THEN SkipDigits(d, j2 + 1) ELSE j2
        fracOk == j3 = j2 \/ j3 > j2 + 1
        hasExp == j3 < Len(d) /\ At(d, j3) \in {"e", "E"}
        j4 == IF hasExp /\ j3 + 1 < Len(d) /\ At(d, j3 + 1) \in {"+", "-"}
              THEN j3 + 2 ELSE j3 + 1
        j5 == IF hasExp THEN SkipDigits(d, j4) ELSE j3
        expOk == ~hasExp \/ j5 > j4
    IN  IF j2 > j1 /\ fracOk /\ expOk THEN j5 ELSE -1

RECURSIVE ParseValue(_, _)
RECURSIVE ParseMembers(_, _)
RECURSIVE ParseElements(_, _)
\* the members of an object, from the first key on, through the closing brace
ParseMembers(d, j) ==
    LET k == ParseString(d, SkipJSONSpace(d, j))
        c == IF k < 0 THEN -1 ELSE SkipJSONSpace(d, k)
        v == IF c >= 0 /\ c < Len(d) /\ At(d, c) = ":" THEN ParseValue(d, c + 1) ELSE -1
        e == IF v < 0 THEN -1 ELSE SkipJSONSpace(d, v)
    IN  IF e < 0 \/ e >= Len(d) THEN -1
        ELSE IF At(d, e) = "}" THEN e + 1
        ELSE IF At(d, e) = "," THEN ParseMembers(d, e + 1)
        ELSE -1

\* the elements of an array, from the first one on, through the closing bracket
ParseElements(d, j) ==
    LET v == ParseValue(d, j)
        e == IF v < 0 THEN -1 ELSE SkipJSONSpace(d, v)
    IN  IF e < 0 \/ e >= Len(d) THEN -1
        ELSE IF At(d, e) = "]" THEN e + 1
        ELSE IF At(d, e) = "," THEN ParseElements(d, e + 1)
        ELSE -1

ParseValue(d, j0) ==
    LET j == SkipJSONSpace(d, j0) IN
    IF j >= Len(d) THEN -1
    ELSE LET c == At(d, j) IN
         IF c = "{"
         THEN LET n == SkipJSONSpace(d, j + 1)
              IN  IF n < Len(d) /\ At(d, n) = "}" THEN n + 1 ELSE ParseMembers(d, j + 1)
         ELSE IF c = "["
         THEN LET n == SkipJSONSpace(d, j + 1)
              IN  IF n < Len(d) /\ At(d, n) = "]" THEN n + 1 ELSE ParseElements(d, j + 1)
         ELSE IF c = Quote THEN ParseString(d, j)
         ELSE IF c = "-" \/ c \in Digits THEN ParseNumber(d, j)
         ELSE IF LiteralAt(d, j, nullLiteral) THEN j + Len(nullLiteral)
         ELSE IF LiteralAt(d, j, trueLiteral) THEN j + Len(trueLiteral)
         ELSE IF LiteralAt(d, j, falseLiteral) THEN j + Len(falseLiteral)
         ELSE -1

\* d is one JSON value, with optional whitespace around it
ValidJSON(d) ==
    LET e == ParseValue(d, 0)
    IN  e >= 0 /\ SkipJSONSpace(d, e) = Len(d)

(***************************************************************************)
(* What the claims speak of.                                               *)
(***************************************************************************)
\* every generator call so far, those of completed applications first
RECURSIVE CallsOfApplied(_)
CallsOfApplied(n) ==
    IF n > Len(applied) THEN <<>> ELSE applied[n].calls \o CallsOfApplied(n + 1)

AllCalls == CallsOfApplied(1) \o calls

\* the call returned no error and one fragment per occurrence: a JSON object
\* (a struct) for Insert and Replace, any value for ReplaceValue
WellFormedCall(c) ==
    /\ ~c.err
    /\ Len(c.result) = c.count
    /\ c.mode \in {ModeInsert, ModeReplace} =>
          \A n \in 1..Len(c.result) : c.result[n].kind = "struct"

GeneratorsWellFormed == \A n \in 1..Len(AllCalls) : WellFormedCall(AllCalls[n])

\* C1: for a valid JSON input and generators that return well-formed
\* fragments, Process returns normally and its output is valid JSON.
C1_OutputIsValidJSON ==
    (pc = "done" /\ ValidJSON(input) /\ GeneratorsWellFormed)
        => (outcome = "ok" /\ ValidJSON(output))

(***************************************************************************)
(* The expected result of one application, computed on the structure of    *)
(* the document (its members), not on its bytes.  A member is matched when *)
(* its key is a mark of the rule set and it does not lie inside the value  *)
(* of a matched member; the matched members are numbered in source order.  *)
(***************************************************************************)
RECURSIVE CountMatches(_, _, _)
CountMatches(members, marks, n) ==
    IF n > Len(members) THEN 0
    ELSE (IF members[n].key \in marks THEN 1
          ELSE IF members[n].val.kind = "obj" THEN CountMatches(members[n].val.members, marks, 1)
          ELSE 0)
         + CountMatches(members, marks, n + 1)

\* the members of an encoded object: its bytes without the outer braces
Interior(bytes) == SubSeq(bytes, 2, Len(bytes) - 1)

\* what stands for a matched member m after the rewrite, by the rule's mode
Rewritten(m, rule, fragment, st) ==
    CASE rule.mode = ModeInsert ->
            rule.preparedKey \o <<":">> \o st.ac \o RenderValue(m.val, st)
            \o (IF Marshal(fragment) = <<"{", "}">> THEN <<>>
                ELSE <<",">> \o Interior(Marshal(fragment)))
      [] rule.mode = ModeReplaceValue ->
            rule.preparedKey \o <<":">> \o Marshal(fragment)
      [] rule.mode = ModeReplace ->
            IF Marshal(fragment) = <<"{", "}">> THEN RenderMember(m, st)
            ELSE <<" ">> \o Interior(Marshal(fragment))
      [] OTHER -> <<>>

RECURSIVE ExpectedMembers(_, _, _, _, _, _)
\* members n.. of an object, the next matched member being number k
ExpectedMembers(members, st, rules, frs, n, k) ==
    IF n > Len(members) THEN <<>>
    ELSE LET m == members[n]
             matched == m.key \in DOMAIN rules
             piece == IF matched THEN Rewritten(m, rules[m.key], frs[k].fragment, st)
                      ELSE IF m.val.kind = "obj"
                      THEN <<Quote>> \o m.key \o <<Quote>> \o st.bc \o <<":">> \o st.ac
                           \o <<"{">>
                           \o ExpectedMembers(m.val.members, st, rules, frs, 1, k)
                           \o <<"}">>
                      ELSE RenderMember(m, st)
             used == CountMatches(<<m>>, DOMAIN rules, 1)
         IN  (IF n > 1 THEN st.bs \o <<",">> \o st.as ELSE <<>>)
             \o piece
             \o ExpectedMembers(members, st, rules, frs, n + 1, k + used)

\* the document with every matched member rewritten, everything else as rendered
Expected(members, st, rules, frs) ==
    <<"{">> \o ExpectedMembers(members, st, rules, frs, 1, 1) \o <<"}">>

RECURSIVE ExpectedAfterDelete(_, _, _, _)
\* the object without its one matched member and without one comma: the
\* comma before the member, else the comma after it
ExpectedAfterDelete(members, st, marks, n) ==
    LET here == {j \in 1..Len(members) : members[j].key \in marks}
        sep == st.bs \o <<",">> \o st.as
        j == CHOOSE x \in here : TRUE
    IN  IF n > Len(members) THEN <<>>
        ELSE IF here = {}
        THEN (IF n > 1 THEN sep ELSE <<>>)
             \o (IF members[n].val.kind = "obj"
                 THEN <<Quote>> \o members[n].key \o <<Quote>> \o st.bc \o <<":">> \o st.ac
                      \o <<"{">> \o ExpectedAfterDelete(members[n].val.members, st, marks, 1)
                      \o <<"}">>
                 ELSE RenderMember(members[n], st))
             \o ExpectedAfterDelete(members, st, marks, n + 1)
        ELSE IF n = j
        THEN (IF j > 1 THEN st.bs
              ELSE IF Len(members) > 1 THEN st.as
              ELSE <<>>)
             \o ExpectedAfterDelete(members, st, marks, n + 1)
        ELSE (IF n > 1 /\ ~(j = 1 /\ n = 2) THEN sep ELSE <<>>)
             \o RenderMember(members[n], st)
             \o ExpectedAfterDelete(members, st, marks, n + 1)

(***************************************************************************)
(* The first application of a call: its input is the rendered document.    *)
(***************************************************************************)
HasApplied == Len(applied) >= 1

FirstRules == passes[applied[1].pass].RuleSet.rules

\* the modes of the rules matched in application n
MatchedModes(n) ==
    {passes[applied[n].pass].RuleSet.rules[applied[n].fragments[k].rule].mode :
        k \in 1..Len(applied[n].fragments)}

\* the encodings of the fragments generated in application n
MatchedEncodings(n) ==
    {Marshal(applied[n].fragments[k].fragment) : k \in 1..Len(applied[n].fragments)}

\* the modes of the rules of the first pass that match a member of the document
DocModes ==
    {passes[1].RuleSet.rules[m].mode :
        m \in {x \in DOMAIN passes[1].RuleSet.rules : CountMatches(doc, {x}, 1) > 0}}

\* a call of one pass applied once, which is over
SingleDone == pc = "done" /\ Len(passes) = 1 /\ passes[1].Repeats = 1 /\ Len(input) > 2

\* the keys of the top-level members of the document, in order
DocKeys == [n \in 1..Len(doc) |-> doc[n].key]

\* C2: an application whose matches are all of Insert rules turns each
\* matched member "M":V into "K":V followed by a comma and the members of
\* its fragment (nothing for an empty fragment) and leaves the rest as it
\* was, wherever the member stands; with struct fragments it cannot fail.
C2_InsertRewrite ==
    /\ (HasApplied /\ MatchedModes(1) = {ModeInsert})
          => applied[1].out = Expected(doc, style, FirstRules, applied[1].fragments)
    /\ (SingleDone /\ DocModes = {ModeInsert} /\ GeneratorsWellFormed)
          => (outcome = "ok" /\ HasApplied /\ output = applied[1].out)

\* the mark is the first and the last of three members, one fragment is
\* empty and one is not
C2_Witness ==
    /\ SingleDone /\ outcome = "ok" /\ HasApplied
    /\ MatchedModes(1) = {ModeInsert}
    /\ DocKeys = <<NameA, NameZ, NameA>>
    /\ MatchedEncodings(1) = {Marshal(EmptyStruct), Marshal(MetaStruct)}

\* C3: an application that matches exactly one member, with a Delete rule,
\* returns the object without the member and without one comma (the one
\* before the member, else the one after it, none for an only member), and
\* does not fail.
C3_DeleteOne ==
    /\ (HasApplied /\ MatchedModes(1) = {ModeDelete} /\ Len(applied[1].fragments) = 1)
          => applied[1].out =
                <<"{">> \o ExpectedAfterDelete(doc, style, DOMAIN FirstRules, 1) \o <<"}">>
    /\ (SingleDone /\ DocModes = {ModeDelete}
           /\ CountMatches(doc, DOMAIN passes[1].RuleSet.rules, 1) = 1)
          => (outcome = "ok" /\ HasApplied /\ output = applied[1].out
              /\ ValidJSON(output))

\* the deleted member is the first of three, written with whitespace
\* around the commas: the comma after it goes
C3_Witness ==
    /\ SingleDone /\ outcome = "ok" /\ HasApplied
    /\ MatchedModes(1) = {ModeDelete}
    /\ DocKeys = <<NameA, NameZ, NameZ>>
    /\ doc[2].val = NumberValue /\ doc[3].val = NumberValue
    /\ style = Spaced

C5_ReplaceRewrite ==
    (HasApplied /\ MatchedModes(1) = {ModeReplace}
        /\ \A k \in 1..Len(applied[1].fragments) :
              /\ applied[1].fragments[k].fragment.kind = "struct"
              /\ applied[1].fragments[k].fragment.fields # <<>>)
       => /\ applied[1].out = Expected(doc, style, FirstRules, applied[1].fragments)
          /\ ~FindSubmatchIndex(CompileRegexp(passes[applied[1].pass].RuleSet),
                                applied[1].out).ok
          /\ ValidJSON(applied[1].out)

\* the pair is the first and the last of three members
C5_Witness ==
    /\ SingleDone /\ outcome = "ok" /\ HasApplied
    /\ MatchedModes(1) = {ModeReplace}
    /\ DocKeys = <<NameB, NameZ, NameB>>
    /\ MatchedEncodings(1) = {Marshal(MetaStruct)}

\* C6: an application whose matches are all of Replace rules with fragments
\* encoded {} writes its input unchanged.
C6_ReplaceEmptyUnchanged ==
    \A n \in 1..Len(applied) :
        (MatchedModes(n) = {ModeReplace} /\ MatchedEncodings(n) = {<<"{", "}">>})
            => applied[n].out = applied[n].in

C6_Witness ==
    /\ HasApplied
    /\ MatchedModes(1) = {ModeReplace}
    /\ MatchedEncodings(1) = {<<"{", "}">>}
    /\ Len(applied[1].fragments) >= 2
    /\ style = Spaced

\* C7 as stated: an application whose matches are all of Insert rules with
\* fragments encoded {} writes its input unchanged.
C7_InsertEmptyUnchanged ==
    \A n \in 1..Len(applied) :
        (MatchedModes(n) = {ModeInsert} /\ MatchedEncodings(n) = {<<"{", "}">>})
            => applied[n].out = applied[n].in

\* the fragments of an application in which every generator returned struct{}{}
AllEmpty == [k \in 1..Len(applied[1].fragments) |-> [fragment |-> EmptyStruct]]

\* C7 amended: such an application appends nothing and keeps the value
\* bytes; it writes the output key for the mark ("M":V becomes "K":V) and
\* copies every other byte.
C7_InsertEmptyRenamesOnly ==
    (HasApplied /\ MatchedModes(1) = {ModeInsert}
        /\ MatchedEncodings(1) = {<<"{", "}">>})
       => /\ applied[1].out = Expected(doc, style, FirstRules, AllEmpty)
          /\ Len(applied[1].out) <= Len(applied[1].in)

C7_Witness ==
    /\ HasApplied
    /\ MatchedModes(1) = {ModeInsert}
    /\ MatchedEncodings(1) = {<<"{", "}">>}
    /\ Len(applied[1].fragments) >= 2
    /\ applied[1].out # applied[1].in

(***************************************************************************)
(* The chain a -> b -> k on the structure of the document: one application *)
(* of ChainRuleSet turns a member a into b:"s" and a member b:V into k:V    *)
(* followed by the member x:1 of the fragment.                             *)
(***************************************************************************)
RECURSIVE ChainStep(_)
ChainStep(members) ==
    IF members = <<>> THEN <<>>
    ELSE LET m == Head(members)
             rest == ChainStep(Tail(members))
         IN  IF m.key = NameA
             THEN <<Member(NameB, [kind |-> "str", bytes |-> Marshal(UUIDString),
                                   members |-> <<>>])>> \o rest
             ELSE IF m.key = NameB
             THEN <<Member(NameK, m.val), Member(<<"x">>, NumberValue)>> \o rest
             ELSE IF m.val.kind = "obj"
             THEN <<Member(m.key, ObjectValue(ChainStep(m.val.members)))>> \o rest
             ELSE <<m>> \o rest

RECURSIVE ChainSteps(_, _)
ChainSteps(members, n) ==
    IF n = 0 THEN members ELSE ChainSteps(ChainStep(members), n - 1)

\* every pass applies the chain rule set
ChainOnly ==
    /\ Len(passes) >= 1
    /\ \A p \in 1..Len(passes) : passes[p].RuleSet.rules = ChainRuleSet.rules

RECURSIVE TotalRepeats(_)
TotalRepeats(p) ==
    IF p > Len(passes) THEN 0 ELSE passes[p].Repeats + TotalRepeats(p + 1)

\* C8: with the chain rule set, n applications yield the document advanced
\* by n steps of the chain: a key written by an application is matched by
\* the next application only, so a becomes b after one repeat and k after two.
C8_ChainNeedsTwoRepeats ==
    /\ (ChainOnly /\ pc = "done")
          => (outcome = "ok"
              /\ output = Render(ChainSteps(doc, TotalRepeats(1)), style))
    /\ (ChainOnly /\ HasApplied)
          => applied[1].out = Render(ChainStep(doc), style)

\* one pass with Repeats = 2 over {"a":1}: {"b":"s"} after the first
\* application, {"k":"s","x":1} returned
C8_Witness ==
    /\ pc = "done" /\ outcome = "ok"
    /\ Len(passes) = 1 /\ ChainOnly /\ passes[1].Repeats = 2
    /\ doc = <<Member(NameA, NumberValue)>>
    /\ Len(applied) = 2
    /\ applied[1].out = <<"{", Quote, "b", Quote, ":", Quote, "s", Quote, "}">>
    /\ output = <<"{", Quote, "k", Quote, ":", Quote, "s", Quote, ",",
                  Quote, "x", Quote, ":", "1", "}">>

\* the applications Process makes, in order: pass p, repeat r (from 0)
RECURSIVE Schedule(_, _)
Schedule(p, r) ==
    IF p > Len(passes) THEN <<>>
    ELSE IF r >= passes[p].Repeats THEN Schedule(p + 1, 0)
    ELSE <<[pass |-> p, i |-> r]>> \o Schedule(p, r + 1)

\* C9: the applications made are a prefix of the schedule (the passes in
\* order, each Repeats times, none for Repeats = 0), each reads what the one
\* before it wrote (the first reads the input), and a call that returns
\* normally has made them all and returns what the last one wrote.
C9_PassOrder ==
    /\ Len(applied) <= Len(Schedule(1, 0))
    /\ \A n \in 1..Len(applied) :
          /\ applied[n].pass = Schedule(1, 0)[n].pass
          /\ applied[n].i = Schedule(1, 0)[n].i
          /\ applied[n].in = IF n = 1 THEN input ELSE applied[n - 1].out
    /\ (pc = "done" /\ outcome = "ok" /\ Len(input) > 2)
          => /\ Len(applied) = Len(Schedule(1, 0))
             /\ output = IF applied = <<>> THEN input ELSE applied[Len(applied)].out

\* a pass with Repeats = 0 before a pass with Repeats = 2, and both
\* applications changed the data
C9_Witness ==
    /\ pc = "done" /\ outcome = "ok"
    /\ Len(passes) = 2 /\ passes[1].Repeats = 0 /\ passes[2].Repeats = 2
    /\ Len(applied) = 2
    /\ applied[1].pass = 2 /\ applied[2].pass = 2
    /\ applied[1].out # applied[1].in
    /\ applied[2].out # applied[2].in

\* the offsets of the marks of the entries of a rule, in source order
RECURSIVE MarksOfRule(_, _)
MarksOfRule(frags, rule) ==
    IF frags = <<>> THEN <<>>
    ELSE (IF Head(frags).rule = rule THEN <<Head(frags).markPos>> ELSE <<>>)
            \o MarksOfRule(Tail(frags), rule)

\* the generator calls cs of an application with the entries frags: at most
\* one call per rule, none for a rule without entry, each with all the
\* entries of its rule; a complete application has called every matched rule
CallsExact(cs, frags, complete) ==
    /\ \A n \in 1..Len(cs) :
          /\ cs[n].marks = MarksOfRule(frags, cs[n].rule)
          /\ cs[n].marks # <<>>
          /\ cs[n].count = Len(cs[n].marks)
          /\ \A m \in 1..Len(cs) : cs[m].rule = cs[n].rule => m = n
    /\ complete =>
          \A k \in 1..Len(frags) : \E n \in 1..Len(cs) : cs[n].rule = frags[k].rule

\* C10: in an application, the generator of each rule with a match is
\* called exactly once, with all the occurrences of the rule, and the
\* generator of a rule without match is not called.
C10_OneBatchPerRule ==
    /\ \A n \in 1..Len(applied) :
          CallsExact(applied[n].calls, applied[n].fragments, TRUE)
    /\ pc = "gen" => CallsExact(calls, fragments, FALSE)

\* two rules matched, one of them twice, the other in between
C10_Witness ==
    /\ HasApplied
    /\ Len(applied[1].calls) = 2
    /\ [k \in 1..Len(applied[1].fragments) |-> applied[1].fragments[k].rule]
          = <<NameA, NameB, NameA>>

(***************************************************************************)
(* The value spans of the matched members with key rule, in source order,  *)
(* computed on the structure of the document: a span starts after the      *)
(* colon and ends with the value.                                          *)
(***************************************************************************)
RECURSIVE MatchedSpans(_, _, _, _, _)
MatchedSpans(members, st, marks, rule, n) ==
    IF n > Len(members) THEN <<>>
    ELSE LET m == members[n]
         IN  (IF m.key \in marks
              THEN (IF m.key = rule THEN <<st.ac \o RenderValue(m.val, st)>> ELSE <<>>)
              ELSE IF m.val.kind = "obj"
              THEN MatchedSpans(m.val.members, st, marks, rule, 1)
              ELSE <<>>)
             \o MatchedSpans(members, st, marks, rule, n + 1)

\* the entries of a rule among the entries of an application, in order
RECURSIVE EntriesOfRule(_, _)
EntriesOfRule(frags, rule) ==
    IF frags = <<>> THEN <<>>
    ELSE (IF Head(frags).rule = rule THEN <<Head(frags)>> ELSE <<>>)
            \o EntriesOfRule(Tail(frags), rule)

\* the call c of a generator on the bytes src with the entries frags obeys
\* the iterator protocol; spliced: the fragments of the entries are assigned
IteratorProtocol(c, src, frags, spliced) ==
    LET es == EntriesOfRule(frags, c.rule)
        k == Len(es)
    IN  /\ k >= 1
        /\ \A j \in 1..(k - 1) : es[j].markPos < es[j + 1].markPos
        /\ c.read.counts = [j \in 1..(k + 1) |-> k]
        /\ Len(c.read.spans) = k
        /\ ~c.read.again
        /\ \A j \in 1..k : c.read.spans[j] = Slice(src, es[j].argsPos, es[j].endPos)
        /\ (spliced /\ ~c.err /\ Len(c.result) = k)
              => \A j \in 1..k : es[j].fragment = c.result[j]

\* C11: the iterator of a rule with k matches reports Count() = k
\* throughout, Next is true k times and then false, the bytes after the
\* j-th Next are the value span of the j-th match in source order, and the
\* j-th fragment returned is the one spliced at the j-th match.
C11_IteratorProtocol ==
    /\ \A n \in 1..Len(applied) : \A x \in 1..Len(applied[n].calls) :
          IteratorProtocol(applied[n].calls[x], applied[n].in, applied[n].fragments, TRUE)
    /\ (pc = "gen" \/ outcome \in {"error", "panic"}) =>
          \A x \in 1..Len(calls) :
             IteratorProtocol(calls[x], data.bytes, fragments, FALSE)
    /\ HasApplied =>
          \A x \in 1..Len(applied[1].calls) :
             applied[1].calls[x].read.spans =
                MatchedSpans(doc, style, DOMAIN FirstRules, applied[1].calls[x].rule, 1)

\* a rule matched twice with another rule's match in between, different
\* values and different fragments for the two matches
C11_Witness ==
    /\ HasApplied
    /\ [k \in 1..Len(applied[1].fragments) |-> applied[1].fragments[k].rule]
          = <<NameA, NameB, NameA>>
    /\ \E x \in 1..Len(applied[1].calls) :
          /\ applied[1].calls[x].rule = NameA
          /\ Len(applied[1].calls[x].read.spans) = 2
          /\ applied[1].calls[x].read.spans[1] # applied[1].calls[x].read.spans[2]
          /\ applied[1].calls[x].result[1] # applied[1].calls[x].result[2]
          /\ applied[1].fragments[1].fragment = applied[1].calls[x].result[1]
          /\ applied[1].fragments[3].fragment = applied[1].calls[x].result[2]

\* C12: when a generator returns an error, Process returns no bytes and an
\* error that wraps the generator's error and names the rule and the repeat
\* counter of the failed application; that application and the ones after
\* it are not made.
C12_GeneratorError ==
    /\ outcome = "error" =>
          /\ pc = "done"
          /\ output = <<>>
          /\ calls # <<>>
          /\ calls[Len(calls)].err
          /\ err = [msg |-> "unable to do pass", i |-> i,
                    wraps |-> [msg |-> "fragments generation error for rule",
                               rule |-> [mode |-> calls[Len(calls)].mode,
                                         mark |-> calls[Len(calls)].rule],
                               wraps |-> GeneratorError]]
          /\ Len(applied) < Len(Schedule(1, 0))
          /\ Schedule(1, 0)[Len(applied) + 1] = [pass |-> passIdx, i |-> i]
    /\ (\E x \in 1..Len(calls) : calls[x].err) => outcome = "error"
    /\ \A n \in 1..Len(applied) : \A x \in 1..Len(applied[n].calls) :
          ~applied[n].calls[x].err

\* the generator fails in the second repeat of the first of two passes,
\* after one application was made and with applications left to make
C12_Witness ==
    /\ outcome = "error"
    /\ err.i = 1
    /\ passIdx = 1
    /\ Len(applied) = 1
    /\ Len(passes) = 2
    /\ passes[2].Repeats >= 1

\* C13: Process returns its input and calls no generator when the input is
\* {} or [], whatever the passes, and when there is no pass, whatever the
\* input.
C13_DegenerateInputs ==
    (pc = "done" /\ (input \in {<<"{", "}">>, EmptyArray} \/ passes = <<>>))
       => (outcome = "ok" /\ output = input /\ AllCalls = <<>> /\ applied = <<>>)

\* the empty array with a pass whose rule set has a rule
C13_Witness ==
    /\ pc = "done"
    /\ input = EmptyArray
    /\ Len(passes) = 1
    /\ passes[1].Repeats = 1
    /\ DOMAIN passes[1].RuleSet.rules # {}
    /\ output = EmptyArray

\* C16 as stated: a call whose context was cancelled while it ran returns
\* an error.
C16_CancelAborts ==
    (pc = "done" /\ ctx = "cancelled" /\ outcome # "panic") => outcome = "error"

\* one pass with at least one rule, whose rules are all Delete rules
DeleteOnly ==
    /\ Len(passes) = 1
    /\ DOMAIN passes[1].RuleSet.rules # {}
    /\ \A m \in DOMAIN passes[1].RuleSet.rules : passes[1].RuleSet.rules[m].mode = ModeDelete

\* C20 as stated: with Delete rules only and Repeats = 2, the second
\* application finds no match and Process returns what the first wrote.
C20_DeleteIdempotent ==
    (pc = "done" /\ DeleteOnly /\ passes[1].Repeats = 2 /\ Len(input) > 2)
       => /\ outcome = "ok"
          /\ Len(applied) = 2
          /\ applied[2].fragments = <<>>
          /\ applied[2].out = applied[1].out
          /\ output = applied[1].out

C18_DeleteRejectsKeyAndGenerator ==
    (lastCall.op = "NewRule" /\ lastCall.mode = ModeDelete
        /\ (lastCall.key # <<>> \/ lastCall.batchFunc # NilGenerator))
       => made.panic

\* some rule is given twice to NewRuleSet
HasDuplicate(rs) ==
    \E j \in 1..Len(rs) : \E k \in 1..Len(rs) : j < k /\ rs[j].mark = rs[k].mark

\* C19: a set maps a mark to the one rule registered for it: AddRule with a
\* registered mark panics and leaves the rules as they were, AddRule with a
\* new mark registers the rule and keeps the others, and NewRuleSet
\* registers its rules or panics when two of them have the same mark.
C19_OneRulePerMark ==
    /\ \A m \in DOMAIN ruleSet.rules :
          ruleSet.rules[m].mark = m /\ ~ruleSet.rules[m].panic
    /\ lastCall.op = "AddRule" =>
          LET old == lastCall.before.rules
              r == lastCall.rule
          IN  IF r.mark \in DOMAIN old
              THEN /\ cfgPc = "panicked"
                   /\ ruleSet.rules = old
                   /\ ruleSet.re = lastCall.before.re
              ELSE /\ cfgPc = "config"
                   /\ DOMAIN ruleSet.rules = DOMAIN old \cup {r.mark}
                   /\ ruleSet.rules[r.mark] = r
                   /\ \A m \in DOMAIN old : ruleSet.rules[m] = old[m]
                   /\ ruleSet.re = NilRegexp
    /\ lastCall.op = "NewRuleSet" =>
          LET rs == lastCall.rules
          IN  IF HasDuplicate(rs)
              THEN cfgPc = "panicked" /\ ruleSet = lastCall.before
              ELSE /\ cfgPc = "config"
                   /\ DOMAIN ruleSet.rules = {rs[k].mark : k \in 1..Len(rs)}
                   /\ \A k \in 1..Len(rs) : ruleSet.rules[rs[k].mark] = rs[k]

\* a second, different rule for a registered mark, in a set of two rules
\* whose expression was compiled
C19_Witness ==
    /\ lastCall.op = "AddRule"
    /\ cfgPc = "panicked"
    /\ Cardinality(DOMAIN ruleSet.rules) = 2
    /\ lastCall.rule.mark \in DOMAIN ruleSet.rules
    /\ ruleSet.rules[lastCall.rule.mark] # lastCall.rule
    /\ ruleSet.re.compiled

\* C14 as stated: no buffer of the pool is backed by an array a caller
\* holds (its input, or the output returned to it), no call writes an array
\* another caller holds, and two running calls have no array in common.
C14_PoolIsolation ==
    /\ \A b \in bufferPool : \A q \in Procs : b.arr \notin Held(q)
    /\ \A w \in bufWrites : w.holders = {}
    /\ \A p \in Procs : \A q \in Procs \ {p} :
          (Running(p) /\ Running(q)) =>
             {procs[p].data.arr, procs[p].buf.arr}
                \cap {procs[q].data.arr, procs[q].buf.arr} = {}

\* C15 as stated: no call writes the state of the shared RuleSet while
\* another call runs with it.
C15_RuleSetReadOnly ==
    /\ \A w \in reWrites : w.during = {}
    /\ sharedSet.rules = ConcRuleSet.rules

(***************************************************************************)
(* The document without its matched members, on its structure, and bytes   *)
(* without the whitespace between their tokens (no string of the           *)
(* documents holds whitespace).                                            *)
(***************************************************************************)
RECURSIVE RemoveMatched(_, _)
RemoveMatched(members, marks) ==
    IF members = <<>> THEN <<>>
    ELSE LET m == Head(members)
             rest == RemoveMatched(Tail(members), marks)
         IN  IF m.key \in marks THEN rest
             ELSE IF m.val.kind = "obj"
             THEN <<Member(m.key, ObjectValue(RemoveMatched(m.val.members, marks)))>> \o rest
             ELSE <<m>> \o rest

RECURSIVE StripSpace(_)
StripSpace(bytes) ==
    IF bytes = <<>> THEN <<>>
    ELSE (IF Head(bytes) \in jsonSpace THEN <<>> ELSE <<Head(bytes)>>)
         \o StripSpace(Tail(bytes))

\* C21 as stated: one application of a rule set of Delete rules returns
\* normally, and what it returns is the object without its matched members,
\* with one comma between two members that remain.
C21_DeleteAnySubset ==
    (SingleDone /\ DeleteOnly)
       => /\ outcome = "ok"
          /\ ValidJSON(output)
          /\ StripSpace(output) =
                Render(RemoveMatched(doc, DOMAIN passes[1].RuleSet.rules), Compact)

(***************************************************************************)
(* The order of the match entries and the cursor of the reassembly.        *)
(***************************************************************************)
\* where an entry starts: at its leading comma when it has one (by the test
\* expandDataFragments makes for ModeDelete), at the quote of its mark
\* otherwise
EntryStart(frag) == IF frag.commaPos > 0 THEN frag.commaPos ELSE frag.markPos

\* the values pos takes in expandDataFragments' loop, up to the end of the
\* loop or to the iteration that panics
RECURSIVE CursorLoop(_, _, _, _, _)
CursorLoop(bytes, frags, rules, n, pos) ==
    IF n > Len(frags) THEN <<pos>>
    ELSE LET r == ExpandOne(<<>>, bytes, frags[n], rules[frags[n].rule], pos)
         IN  IF r.panic THEN <<pos>>
             ELSE <<pos>> \o CursorLoop(bytes, frags, rules, n + 1, r.pos)

EntriesOrdered(bytes, frags) ==
    /\ \A n \in 1..Len(frags) :
          /\ 0 <= EntryStart(frags[n])
          /\ EntryStart(frags[n]) <= frags[n].markPos
          /\ frags[n].markPos < frags[n].argsPos
          /\ frags[n].argsPos < frags[n].endPos
          /\ frags[n].endPos <= Len(bytes)
    /\ \A n \in 1..(Len(frags) - 1) :
          /\ frags[n].markPos < frags[n + 1].markPos
          /\ frags[n].endPos <= EntryStart(frags[n + 1])
    /\ \A n, m \in 1..Len(frags) :
          n # m => ~(frags[n].argsPos <= frags[m].markPos /\ frags[m].markPos < frags[n].endPos)

CursorForward(bytes, frags, rules) ==
    LET trace == CursorLoop(bytes, frags, rules, 1, 0)
    IN  \A n \in 1..(Len(trace) - 1) : trace[n] <= trace[n + 1]

\* C22: the entries of one application are in strictly increasing source
\* order; the value of an entry ends at or before the leading comma (or the
\* mark, without a comma) of the next one; a mark inside the value of a
\* matched mark gives no entry (in the first application of a call the
\* number of entries is the number of matched members that are not inside
\* a matched member); and pos never decreases in expandDataFragments, in the
\* applications that return and in those that panic.
C22_EntriesOrdered ==
    /\ (pc = "gen" \/ (outcome = "panic" /\ passIdx <= Len(passes)))
          => /\ EntriesOrdered(data.bytes, fragments)
             /\ CursorForward(data.bytes, fragments, passes[passIdx].RuleSet.rules)
    /\ (pc = "gen" /\ applied = <<>>)
          => Len(fragments) = CountMatches(doc, DOMAIN passes[passIdx].RuleSet.rules, 1)
    /\ \A k \in 1..Len(applied) :
          /\ EntriesOrdered(applied[k].in, applied[k].fragments)
          /\ CursorForward(applied[k].in, applied[k].fragments,
                           passes[applied[k].pass].RuleSet.rules)

\* two entries of which the first has a mark inside its value, and a cursor
\* that went over both
C22_Witness ==
    /\ Len(applied) = 1
    /\ Len(applied[1].fragments) = 2
    /\ \E p \in applied[1].fragments[1].argsPos..(applied[1].fragments[1].endPos - 1) :
          MatchAt(RuleSetRegexp(passes[1].RuleSet), applied[1].in, p).ok
    /\ Len(CursorLoop(applied[1].in, applied[1].fragments, passes[1].RuleSet.rules, 1, 0)) = 3

(***************************************************************************)
(* The value span of a match.                                              *)
(***************************************************************************)
\* bytes that are one JSON value and nothing else
ExactValue(bytes) ==
    /\ bytes # <<>>
    /\ bytes[1] \notin asciiSpace
    /\ bytes[Len(bytes)] \notin asciiSpace
    /\ ValidJSON(bytes)

\* C23 as stated: the value start of every entry is the offset of the first
\* byte of the value, after the colon and the whitespace that follows it, and
\* every span a generator reads through Bytes() is exactly the value: a
\* JSON value without whitespace before or after it.
C23_ValueSpanExact ==
    \A n \in 1..Len(applied) :
       /\ \A k \in 1..Len(applied[n].fragments) :
             LET frag == applied[n].fragments[k]
             IN  /\ At(applied[n].in, frag.argsPos) \notin asciiSpace
                 /\ ExactValue(Slice(applied[n].in, frag.argsPos, frag.endPos))
       /\ \A x \in 1..Len(applied[n].calls) :
             \A j \in 1..Len(applied[n].calls[x].read.spans) :
                ExactValue(applied[n].calls[x].read.spans[j])

(***************************************************************************)
(* The scanner on well-formed values.                                      *)
(***************************************************************************)
\* C24: on a buffer that starts, after optional ASCII whitespace, with a
\* well-formed JSON value followed by at least one more byte,
\* findJSONFragmentEnd returns the exclusive end offset of that value: the
\* offset after the closing quote of a string, after the matching bracket
\* of an object or array, after the last byte of a number (whose run of
\* number bytes ends there) and after a literal.
C24_FragmentEnd ==
    (scanPc = "done" /\ scanIn.tail # <<>>)
       => /\ ParseValue(scanIn.value, 0) = Len(scanIn.value)
          /\ scanIn.value[1] \notin asciiSpace
          /\ scanOut = Len(scanIn.lead) + Len(scanIn.value)
          /\ ParseValue(ScanData(scanIn), Len(scanIn.lead)) = scanOut
          /\ (scanIn.value[1] = Quote)
                => /\ At(ScanData(scanIn), scanOut - 1) = Quote
                   /\ ParseString(scanIn.value, 0) = Len(scanIn.value)
          /\ (scanIn.value[1] \in {"[", "{"})
                => At(ScanData(scanIn), scanOut - 1) = (IF scanIn.value[1] = "[" THEN "]" ELSE "}")
          /\ (scanIn.value[1] = "-" \/ scanIn.value[1] \in Digits)
                => /\ \A n \in 1..Len(scanIn.value) : scanIn.value[n] \in NumberBytes
                   /\ scanIn.tail[1] \notin NumberBytes

\* an array after whitespace, with an escaped quote and brackets inside a
\* string of an object inside it, and more bytes after it
C24_Witness ==
    /\ scanPc = "done"
    /\ scanIn.lead # <<>>
    /\ scanIn.tail # <<>>
    /\ scanIn.value[1] = "["
    /\ \E n \in 2..(Len(scanIn.value) - 3) :
          /\ scanIn.value[n] = "{"
          /\ scanIn.value[n + 1] = Quote
          /\ scanIn.value[n + 2] = "}"
          /\ scanIn.value[n + 3] = Backslash
    /\ scanOut = Len(scanIn.lead) + Len(scanIn.value)
    /\ scanOut < Len(ScanData(scanIn))

(***************************************************************************)
(* The names the matcher reports.                                          *)
(***************************************************************************)
\* the names iterateMarks reports for the bytes with the rule set's expression
ReportedMarks(set, bytes) ==
    UNION {{f.marks[n].mark : n \in 1..Len(f.marks)} :
              f \in {iterateMarks(bytes, RuleSetRegexp(set))}}

\* C25 as stated: in every application of a rule set built by NewRuleSet,
\* the set without rules included, every name the matcher reports is the
\* mark of a rule of the set, and Process does not end in doPassBatch's
\* panic for a mark without rule.
C25_NoUnknownMark ==
    /\ (pc = "loop" /\ passIdx \in 1..Len(passes) /\ i < passes[passIdx].Repeats)
          => ReportedMarks(passes[passIdx].RuleSet, data.bytes)
                \subseteq DOMAIN passes[passIdx].RuleSet.rules
    /\ (outcome = "panic" /\ passIdx \in 1..Len(passes))
          => DOMAIN passes[passIdx].RuleSet.rules # {}

(***************************************************************************)
(* The caller's input after Process returned.                              *)
(***************************************************************************)
\* the call of p is the only call that was made
OnlyCall(p) == \A q \in Procs \ {p} : procs[q].pc = "idle"

\* C26 as stated: when Process returns, after one, two or more
\* applications, the array of the caller's input holds the bytes it held at
\* the call, and the returned bytes are in another array unless they are
\* the input itself, unchanged.
C26_InputUnmodified ==
    \A p \in Procs :
       (procs[p].pc = "done" /\ OnlyCall(p))
          => /\ memory[InputArray(p)] = procs[p].src
             /\ (procs[p].out.arr = InputArray(p))
                   => BufferBytes(memory, procs[p].out) = procs[p].src

====
